---------------------------- MODULE Spec2Model ----------------------------
(***************************************************************************)
(* Model of the NGO impact tracker's bulk ingestion pipeline               *)
(* (services/csvProcessor.js, routes/reports.js, database.js).             *)
(*                                                                         *)
(* Text is modelled as a tuple of one-character strings, so that the       *)
(* validators' trimming, case folding and number parsing are computed the  *)
(* way the JavaScript computes them, character by character.               *)
(***************************************************************************)
EXTENDS Integers, Sequences, FiniteSets, TLC

(***************************************************************************)
(* Bounds of the model.                                                    *)
(***************************************************************************)
\* Largest number of data records a modelled CSV file delivers.
MaxRows == 3

(***************************************************************************)
(* Text helpers (JavaScript String semantics on the characters used).      *)
(***************************************************************************)
Range(s) == {s[i] : i \in DOMAIN s}

Whitespace == {" ", "\t"}

Digits == <<"0", "1", "2", "3", "4", "5", "6", "7", "8", "9">>

IsDigit(c) == \E d \in DOMAIN Digits : Digits[d] = c

DigitValue(c) == (CHOOSE d \in DOMAIN Digits : Digits[d] = c) - 1

UpperCase == <<"A", "B", "C", "D", "E", "F", "G", "H", "I", "J", "K", "L", "M",
               "N", "O", "P", "Q", "R", "S", "T", "U", "V", "W", "X", "Y", "Z">>

LowerCase == <<"a", "b", "c", "d", "e", "f", "g", "h", "i", "j", "k", "l", "m",
               "n", "o", "p", "q", "r", "s", "t", "u", "v", "w", "x", "y", "z">>

\* String.prototype.toLowerCase
toLowerCase(s) ==
    [i \in DOMAIN s |->
        IF \E u \in DOMAIN UpperCase : UpperCase[u] = s[i]
        THEN LowerCase[CHOOSE u \in DOMAIN UpperCase : UpperCase[u] = s[i]]
        ELSE s[i]]

RECURSIVE TrimStart(_)
TrimStart(s) ==
    IF s # <<>> /\ Head(s) \in Whitespace THEN TrimStart(Tail(s)) ELSE s

RECURSIVE TrimEnd(_)
TrimEnd(s) ==
    IF s # <<>> /\ s[Len(s)] \in Whitespace
    THEN TrimEnd(SubSeq(s, 1, Len(s) - 1))
    ELSE s

\* String.prototype.trim
trim(s) == TrimEnd(TrimStart(s))

\* The value of a property the object does not have.
Undefined == <<"undefined">>

\* String(x): a string is itself, undefined becomes the text "undefined".
String(x) ==
    IF x = Undefined THEN <<"u", "n", "d", "e", "f", "i", "n", "e", "d">> ELSE x

\* !x for a string or undefined: true of undefined and of the empty string.
Falsy(x) == x = Undefined \/ x = <<>>

RECURSIVE DigitPrefix(_)
\* The longest prefix of s made of decimal digits.
DigitPrefix(s) ==
    IF s # <<>> /\ IsDigit(Head(s)) THEN <<Head(s)>> \o DigitPrefix(Tail(s)) ELSE <<>>

RECURSIVE DigitsValue(_)
\* The number a string of decimal digits denotes.
DigitsValue(ds) ==
    IF ds = <<>> THEN 0
    ELSE 10 * DigitsValue(SubSeq(ds, 1, Len(ds) - 1)) + DigitValue(ds[Len(ds)])

\* A JavaScript number: NaN, or the decimal num / 10^scale (scale = 0 for an
\* integer), kept with no trailing zero in the fraction.
NaN == [nan |-> TRUE, num |-> 0, scale |-> 0]

Number(n, sc) == [nan |-> FALSE, num |-> n, scale |-> sc]

RECURSIVE Normalize(_)
Normalize(x) ==
    IF ~x.nan /\ x.scale > 0 /\ x.num % 10 = 0
    THEN Normalize(Number(x.num \div 10, x.scale - 1))
    ELSE x

isNaN(x) == x.nan

\* x < 0 (false of NaN)
Negative(x) == ~x.nan /\ x.num < 0

\* x || 0: NaN and 0 become 0.
OrZero(x) == IF x.nan THEN Number(0, 0) ELSE x

\* parseInt(x): leading whitespace skipped, an optional sign, then the
\* longest run of decimal digits; NaN when there is no digit.  (Inputs are
\* drawn from digits, signs, '.', letters and blanks; no "0x" prefix.)
parseInt(x) ==
    LET s    == TrimStart(String(x))
        neg  == s # <<>> /\ Head(s) = "-"
        body == IF s # <<>> /\ Head(s) \in {"-", "+"} THEN Tail(s) ELSE s
        ds   == DigitPrefix(body)
    IN  IF ds = <<>> THEN NaN
        ELSE Number(IF neg THEN 0 - DigitsValue(ds) ELSE DigitsValue(ds), 0)

\* parseFloat(x): as parseInt, with an optional fraction after a '.'.
\* (No exponent and no "Infinity" among the inputs.)
parseFloat(x) ==
    LET s     == TrimStart(String(x))
        neg   == s # <<>> /\ Head(s) = "-"
        body  == IF s # <<>> /\ Head(s) \in {"-", "+"} THEN Tail(s) ELSE s
        ip    == DigitPrefix(body)
        rest  == SubSeq(body, Len(ip) + 1, Len(body))
        fp    == IF rest # <<>> /\ Head(rest) = "." THEN DigitPrefix(Tail(rest)) ELSE <<>>
        mag   == DigitsValue(ip \o fp)
    IN  IF ip = <<>> /\ fp = <<>> THEN NaN
        ELSE Normalize(Number(IF neg THEN 0 - mag ELSE mag, Len(fp)))

\* /^\d{4}-\d{2}$/.test(s)
IsYearMonth(s) ==
    /\ Len(s) = 7
    /\ \A i \in {1, 2, 3, 4, 6, 7} : IsDigit(s[i])
    /\ s[5] = "-"


(***************************************************************************)
(* Column names and the two validators of csvProcessor.js.                 *)
(***************************************************************************)
ngo_id == <<"n", "g", "o", "_", "i", "d">>

month == <<"m", "o", "n", "t", "h">>

people_helped == <<"p", "e", "o", "p", "l", "e", "_", "h", "e", "l", "p", "e", "d">>

events_conducted ==
    <<"e", "v", "e", "n", "t", "s", "_", "c", "o", "n", "d", "u", "c", "t", "e", "d">>

funds_utilized ==
    <<"f", "u", "n", "d", "s", "_", "u", "t", "i", "l", "i", "z", "e", "d">>

REQUIRED_HEADERS ==
    <<ngo_id, month, people_helped, events_conducted, funds_utilized>>

\* A message: `Row ${row}: ${text}` when row > 0, else `${text}: ${detail}`.
Msg(row, text, detail) == [row |-> row, text |-> text, detail |-> detail]

\* A parsed record is an object: its keys in column order and their values.
\* row.name is Undefined when the object has no such key.
Get(row, name) ==
    IF name \in Range(row.keys) THEN row.val[name] ELSE Undefined

\* Object.keys(row)
ObjectKeys(row) == row.keys

\* validateHeaders reporting the first missing column only.
validateHeadersFirstMissing(headers) ==
    LET normalizedHeaders == [i \in DOMAIN headers |-> trim(toLowerCase(headers[i]))]
        Missing(required) == required \notin Range(normalizedHeaders)
        missingHeaders    == SelectSeq(REQUIRED_HEADERS, Missing)
    IN  IF Len(missingHeaders) > 0
        THEN [isValid |-> FALSE,
              error   |-> Msg(0, "Missing required columns", <<missingHeaders[1]>>)]
        ELSE [isValid |-> TRUE, error |-> Msg(0, "", <<>>)]

\* validateHeaders looking for each required name at its own position.
validateHeadersByPosition(headers) ==
    LET normalizedHeaders == [i \in DOMAIN headers |-> trim(toLowerCase(headers[i]))]
        Missing(required) ==
            \A i \in DOMAIN REQUIRED_HEADERS :
                REQUIRED_HEADERS[i] = required =>
                    (i \notin DOMAIN normalizedHeaders \/ normalizedHeaders[i] # required)
        missingHeaders    == SelectSeq(REQUIRED_HEADERS, Missing)
    IN  IF Len(missingHeaders) > 0
        THEN [isValid |-> FALSE,
              error   |-> Msg(0, "Missing required columns", missingHeaders)]
        ELSE [isValid |-> TRUE, error |-> Msg(0, "", <<>>)]

validateHeaders(headers) ==
    LET normalizedHeaders == [i \in DOMAIN headers |-> trim(toLowerCase(headers[i]))]
        Missing(required) == required \notin Range(normalizedHeaders)
        missingHeaders    == SelectSeq(REQUIRED_HEADERS, Missing)
    IN  IF Len(missingHeaders) > 0
        THEN [isValid |-> FALSE,
              error   |-> Msg(0, "Missing required columns", missingHeaders)]
        ELSE [isValid |-> TRUE, error |-> Msg(0, "", <<>>)]

\* validateRow with its five tests in one else-if chain: the first failing
\* rule only.
validateRowFirstOnly(row, rowIndex) ==
    LET peopleHelped    == parseInt(Get(row, people_helped))
        eventsConducted == parseInt(Get(row, events_conducted))
        fundsUtilized   == parseFloat(Get(row, funds_utilized))
        errs ==
            IF Falsy(Get(row, ngo_id)) \/ trim(String(Get(row, ngo_id))) = <<>>
            THEN <<Msg(rowIndex, "NGO ID is required", <<>>)>>
            ELSE IF Falsy(Get(row, month)) \/ trim(String(Get(row, month))) = <<>>
            THEN <<Msg(rowIndex, "Month is required", <<>>)>>
            ELSE IF ~IsYearMonth(trim(String(Get(row, month))))
            THEN <<Msg(rowIndex, "Month must be in YYYY-MM format", <<>>)>>
            ELSE IF isNaN(peopleHelped) \/ Negative(peopleHelped)
            THEN <<Msg(rowIndex, "People Helped must be a non-negative number", <<>>)>>
            ELSE IF isNaN(eventsConducted) \/ Negative(eventsConducted)
            THEN <<Msg(rowIndex, "Events Conducted must be a non-negative number", <<>>)>>
            ELSE IF isNaN(fundsUtilized) \/ Negative(fundsUtilized)
            THEN <<Msg(rowIndex, "Funds Utilized must be a non-negative number", <<>>)>>
            ELSE <<>>
    IN  [isValid |-> Len(errs) = 0,
         errors  |-> errs,
         data    |-> [ngo_id           |-> trim(String(Get(row, ngo_id))),
                      month            |-> trim(String(Get(row, month))),
                      people_helped    |-> OrZero(peopleHelped),
                      events_conducted |-> OrZero(eventsConducted),
                      funds_utilized   |-> OrZero(fundsUtilized)]]

validateRow(row, rowIndex) ==
    LET e1 == IF Falsy(Get(row, ngo_id)) \/ trim(String(Get(row, ngo_id))) = <<>>
              THEN <<Msg(rowIndex, "NGO ID is required", <<>>)>>
              ELSE <<>>
        e2 == IF Falsy(Get(row, month)) \/ trim(String(Get(row, month))) = <<>>
              THEN <<Msg(rowIndex, "Month is required", <<>>)>>
              ELSE IF ~IsYearMonth(trim(String(Get(row, month))))
              THEN <<Msg(rowIndex, "Month must be in YYYY-MM format", <<>>)>>
              ELSE <<>>
        peopleHelped == parseInt(Get(row, people_helped))
        e3 == IF isNaN(peopleHelped) \/ Negative(peopleHelped)
              THEN <<Msg(rowIndex, "People Helped must be a non-negative number", <<>>)>>
              ELSE <<>>
        eventsConducted == parseInt(Get(row, events_conducted))
        e4 == IF isNaN(eventsConducted) \/ Negative(eventsConducted)
              THEN <<Msg(rowIndex, "Events Conducted must be a non-negative number", <<>>)>>
              ELSE <<>>
        fundsUtilized == parseFloat(Get(row, funds_utilized))
        e5 == IF isNaN(fundsUtilized) \/ Negative(fundsUtilized)
              THEN <<Msg(rowIndex, "Funds Utilized must be a non-negative number", <<>>)>>
              ELSE <<>>
        errs == e1 \o e2 \o e3 \o e4 \o e5
    IN  [isValid |-> Len(errs) = 0,
         errors  |-> errs,
         data    |-> [ngo_id           |-> trim(String(Get(row, ngo_id))),
                      month            |-> trim(String(Get(row, month))),
                      people_helped    |-> OrZero(peopleHelped),
                      events_conducted |-> OrZero(eventsConducted),
                      funds_utilized   |-> OrZero(fundsUtilized)]]

(***************************************************************************)
(* routes/reports.js: validateReport(data), the validator of POST /report. *)
(* Its messages carry no row (row 0 of Msg, with no detail).               *)
(***************************************************************************)
ReportMsg(text) == Msg(0, text, <<>>)

\* validateReport as an else-if chain: the first failing rule only.
validateReportFirstOnly(data) ==
    LET v == validateRow(data, 0)
    IN  [isValid |-> v.isValid,
         errors  |-> IF v.errors = <<>> THEN <<>> ELSE <<ReportMsg(v.errors[1].text)>>,
         data    |-> v.data]

validateReport(data) ==
    LET e1 == IF Falsy(Get(data, ngo_id)) \/ trim(String(Get(data, ngo_id))) = <<>>
              THEN <<ReportMsg("NGO ID is required")>>
              ELSE <<>>
        e2 == IF Falsy(Get(data, month)) \/ trim(String(Get(data, month))) = <<>>
              THEN <<ReportMsg("Month is required")>>
              ELSE IF ~IsYearMonth(trim(String(Get(data, month))))
              THEN <<ReportMsg("Month must be in YYYY-MM format (e.g., 2024-01)")>>
              ELSE <<>>
        peopleHelped == parseInt(Get(data, people_helped))
        e3 == IF isNaN(peopleHelped) \/ Negative(peopleHelped)
              THEN <<ReportMsg("People Helped must be a non-negative number")>>
              ELSE <<>>
        eventsConducted == parseInt(Get(data, events_conducted))
        e4 == IF isNaN(eventsConducted) \/ Negative(eventsConducted)
              THEN <<ReportMsg("Events Conducted must be a non-negative number")>>
              ELSE <<>>
        fundsUtilized == parseFloat(Get(data, funds_utilized))
        e5 == IF isNaN(fundsUtilized) \/ Negative(fundsUtilized)
              THEN <<ReportMsg("Funds Utilized must be a non-negative number")>>
              ELSE <<>>
        errs == e1 \o e2 \o e3 \o e4 \o e5
    IN  [isValid |-> Len(errs) = 0,
         errors  |-> errs,
         data    |-> [ngo_id           |-> trim(String(Get(data, ngo_id))),
                      month            |-> trim(String(Get(data, month))),
                      people_helped    |-> OrZero(peopleHelped),
                      events_conducted |-> OrZero(eventsConducted),
                      funds_utilized   |-> OrZero(fundsUtilized)]]

(***************************************************************************)
(* The uploaded files.  A file is what the csv-parse stream makes of it:   *)
(* the header line's column names, the data records it delivers (each an   *)
(* object keyed by the header names, fields trimmed), and whether the      *)
(* stream fails with a parse error after delivering them instead of        *)
(* ending.                                                                 *)
(***************************************************************************)
\* Field values of the sample data lines, in the order ngo_id, month,
\* people_helped, events_conducted, funds_utilized.
LineA == << <<"N", "G", "O", "0", "0", "1">>, <<"2", "0", "2", "4", "-", "0", "1">>,
            <<"1", "5", "0">>, <<"5">>, <<"5", "0", "0", "0", "0">> >>

LineB == << <<"N", "G", "O", "0", "0", "2">>, <<"2", "0", "2", "4", "-", "1", "3">>,
            <<"1", "2", "a">>, <<"0">>, <<"6", "0", ".", "5", "0">> >>

LineC == << <<"N", "G", "O", "0", "0", "1">>, <<"2", "0", "2", "4", "-", "0", "1">>,
            <<"2", "0", "0">>, <<"6">>, <<"6", "0", "0", "0", "0">> >>

LineX == << <<>>, <<"2", "0", "2", "4", "-", "1">>,
            <<"-", "5">>, <<"a", "b", "c">>, <<"-", "0", ".", "5">> >>

LineY == << <<"N", "G", "O", "0", "0", "3">>, <<"2", "0", "2", "4", "-", "0", "2">>,
            <<"1", "0">>, <<"1">>, <<"x">> >>

SampleLines == {LineA, LineB, LineC, LineX, LineY}

\* Header lines: each column is <<name, c>>, its fields taken from position c
\* of the sample line (0: a column of its own, holding "x").
HeaderExact ==
    << <<ngo_id, 1>>, <<month, 2>>, <<people_helped, 3>>,
       <<events_conducted, 4>>, <<funds_utilized, 5>> >>

HeaderShuffledExtra ==
    << <<funds_utilized, 5>>, <<<<"N", "G", "O", "_", "I", "D">>, 1>>, <<<<"n", "o", "t", "e", "s">>, 0>>,
       <<month, 2>>, <<events_conducted, 4>>, <<people_helped, 3>> >>

HeaderNoMonth ==
    << <<ngo_id, 1>>, <<people_helped, 3>>,
       <<events_conducted, 4>>, <<funds_utilized, 5>> >>

HeaderNoMonthNoFunds ==
    << <<<<"N", "g", "o", "_", "I", "d">>, 1>>, <<people_helped, 3>>, <<events_conducted, 4>> >>

HeaderLines == {HeaderExact, HeaderShuffledExtra, HeaderNoMonth, HeaderNoMonthNoFunds}

ColumnNames(h) == [i \in DOMAIN h |-> h[i][1]]

\* The object csv-parse (columns: true) makes of a data line under a header.
RecordOf(h, line) ==
    [keys |-> ColumnNames(h),
     val  |-> [name \in Range(ColumnNames(h)) |->
                 LET c == h[CHOOSE i \in DOMAIN h : h[i][1] = name][2]
                 IN  IF c = 0 THEN <<"x">> ELSE line[c]]]

LineSeqs == UNION {[1..n -> SampleLines] : n \in 0..MaxRows}

CSVFiles ==
    {[headers |-> ColumnNames(h),
      records |-> [i \in DOMAIN ls |-> RecordOf(h, ls[i])],
      fault   |-> f] : h \in HeaderLines, ls \in LineSeqs, f \in BOOLEAN}
    \cup {[headers |-> <<>>, records |-> <<>>, fault |-> f] : f \in BOOLEAN}

\* The files of the runs that upload one file twice: every sequence of up to
\* MaxRows lines out of two valid lines with the same key and an invalid one,
\* under a complete and an incomplete header, ending or failing.
TwiceLineSeqs == UNION {[1..n -> {LineA, LineC, LineX}] : n \in 0..MaxRows}

TwiceFiles ==
    {[headers |-> ColumnNames(h),
      records |-> [i \in DOMAIN ls |-> RecordOf(h, ls[i])],
      fault   |-> f] : h \in {HeaderExact, HeaderNoMonth}, ls \in TwiceLineSeqs,
                       f \in BOOLEAN}

\* The files of the runs with two jobs at once: two valid rows of one key;
\* an invalid row and a valid row of that key; and (below) one whose stream
\* fails.
ConcurrentLineSeqs == {<<LineA, LineC>>, <<LineX, LineC>>}

ConcurrentFiles ==
    {[headers |-> ColumnNames(HeaderExact),
      records |-> [i \in DOMAIN ls |-> RecordOf(HeaderExact, ls[i])],
      fault   |-> FALSE] : ls \in ConcurrentLineSeqs}
    \cup {[headers |-> ColumnNames(HeaderExact),
           records |-> <<RecordOf(HeaderExact, LineA)>>,
           fault   |-> TRUE]}

\* The bodies of POST /report: JSON objects with the five fields (one with
\* the key of the files' rows, one with another key), and one without its
\* month whose other four fields are bad too.
ReportBodies ==
    {RecordOf(HeaderExact, l) : l \in {LineC, LineB}}
    \cup {RecordOf(HeaderNoMonth, LineX)}

\* How many POST /report requests a run makes.
MaxPosts == 1

(***************************************************************************)
(* database.js: the jobs table and the reports table.                      *)
(***************************************************************************)
\* Job identifiers uuidv4() hands out.
JobIds == {"job-1"}

\* The identifiers of the runs with two jobs.
TwoJobIds == {"job-1", "job-2"}

\* The statement with 'processing' for 'pending'.
createJobStarted(js, id, total) ==
    [k \in DOMAIN js \cup {id} |->
        IF k = id
        THEN [status |-> "processing", total_rows |-> total, processed_rows |-> 0,
              successful_rows |-> 0, failed_rows |-> 0, errors |-> <<>>]
        ELSE js[k]]

\* INSERT INTO jobs (id, status, total_rows) VALUES (?, 'pending', ?), the
\* other columns taking the defaults of the schema.
createJob(js, id, total) ==
    [k \in DOMAIN js \cup {id} |->
        IF k = id
        THEN [status |-> "pending", total_rows |-> total, processed_rows |-> 0,
              successful_rows |-> 0, failed_rows |-> 0, errors |-> <<>>]
        ELSE js[k]]

\* The statement without its WHERE clause: every row of the table is set.
updateEveryJob(js, p) ==
    [k \in DOMAIN js |->
        [status |-> p.status, total_rows |-> p.total_rows,
         processed_rows |-> p.processed_rows,
         successful_rows |-> p.successful_rows,
         failed_rows |-> p.failed_rows, errors |-> p.errors]]

\* UPDATE jobs SET ... WHERE id = @id: every column of the one matching row.
updateJobProgress(js, p) ==
    [k \in DOMAIN js |->
        IF k = p.id
        THEN [status |-> p.status, total_rows |-> p.total_rows,
              processed_rows |-> p.processed_rows,
              successful_rows |-> p.successful_rows,
              failed_rows |-> p.failed_rows, errors |-> p.errors]
        ELSE js[k]]

\* The statement without its ON CONFLICT clause, on a table without the
\* UNIQUE(ngo_id, month) constraint: every call adds a row.
insertReport(rs, data) ==
    Append(rs, [id |-> Len(rs) + 1, ngo_id |-> data.ngo_id, month |-> data.month,
                people_helped |-> data.people_helped,
                events_conducted |-> data.events_conducted,
                funds_utilized |-> data.funds_utilized])

\* The statement with ON CONFLICT(ngo_id, month) DO NOTHING: the first
\* values of a key stay.
insertOrIgnoreReport(rs, data) ==
    IF \E i \in DOMAIN rs : rs[i].ngo_id = data.ngo_id /\ rs[i].month = data.month
    THEN rs
    ELSE Append(rs, [id |-> Len(rs) + 1, ngo_id |-> data.ngo_id, month |-> data.month,
                     people_helped |-> data.people_helped,
                     events_conducted |-> data.events_conducted,
                     funds_utilized |-> data.funds_utilized])

\* INSERT INTO reports ... ON CONFLICT(ngo_id, month) DO UPDATE SET the three
\* numeric columns.  The table is the sequence of its rows in rowid order.
insertOrUpdateReport(rs, data) ==
    IF \E i \in DOMAIN rs : rs[i].ngo_id = data.ngo_id /\ rs[i].month = data.month
    THEN [i \in DOMAIN rs |->
            IF rs[i].ngo_id = data.ngo_id /\ rs[i].month = data.month
            THEN [rs[i] EXCEPT !.people_helped = data.people_helped,
                               !.events_conducted = data.events_conducted,
                               !.funds_utilized = data.funds_utilized]
            ELSE rs[i]]
    ELSE Append(rs, [id |-> Len(rs) + 1, ngo_id |-> data.ngo_id, month |-> data.month,
                     people_helped |-> data.people_helped,
                     events_conducted |-> data.events_conducted,
                     funds_utilized |-> data.funds_utilized])

\* What a call of insertOrUpdateReport.run can do: commit, or throw an error
\* with this message.
StoreErrors == {"SQLITE_BUSY"}

(***************************************************************************)
(* State.                                                                  *)
(***************************************************************************)
VARIABLES
    jobs,               \* the jobs table: job id -> row
    reports,            \* the reports table: its rows in rowid order
    jobWrites,          \* per job, the rows updateJobProgress.run wrote, in order
    storeCalls,         \* per job, its insertOrUpdateReport.run calls: row, data, answer
    storeLog,           \* the committed insertOrUpdateReport.run calls of all callers, in order
    responses,          \* the HTTP responses the routes have sent, in order
    uuids,              \* the identifiers uuidv4() has not handed out yet
    csv,                \* per job, the uploaded file (see CSVFiles)
    upload,             \* per job, the uploaded file on disk and the cleanupFile calls
    parser,             \* per job, the csv-parse stream: records delivered, state
    results,            \* processCSVFile: const results = []
    errors,             \* processCSVFile: const errors = []
    rowIndex,           \* processCSVFile: let rowIndex = 0
    headersValidated,   \* processCSVFile: let headersValidated = false
    processingAborted,  \* processCSVFile: let processingAborted = false
    loop,               \* the 'end' handler: where it is, and its counters
    promise,            \* the promise processCSVFile returned
    arg,                \* a function studied by itself: the arguments of its call
    ret,                \* ... and what the calls made so far returned, by function
    dashboard,          \* Dashboard.jsx: the component's state, listener and requests
    bulkUpload          \* BulkUpload.jsx: the component's state, effect and requests

\* The state of the server: everything but the study of a function by itself.
server == <<jobs, reports, jobWrites, storeCalls, storeLog, responses, uuids, csv, upload,
            parser, results, errors, rowIndex, headersValidated, processingAborted, loop,
            promise>>

\* The two components of the browser (<<>> where no browser is modelled).
client == <<dashboard, bulkUpload>>

vars == <<server, client, arg, ret>>

Init ==
    /\ jobs = <<>>
    /\ reports = <<>>
    /\ jobWrites = <<>>
    /\ storeCalls = <<>>
    /\ storeLog = <<>>
    /\ responses = <<>>
    /\ uuids = JobIds
    /\ csv = <<>>
    /\ upload = <<>>
    /\ parser = <<>>
    /\ results = <<>>
    /\ errors = <<>>
    /\ rowIndex = <<>>
    /\ headersValidated = <<>>
    /\ processingAborted = <<>>
    /\ loop = <<>>
    /\ promise = <<>>
    /\ arg = <<>>
    /\ ret = <<>>
    /\ dashboard = <<>>
    /\ bulkUpload = <<>>

\* f with key k added (or replaced), holding v.
With(f, k, v) == [x \in DOMAIN f \cup {k} |-> IF x = k THEN v ELSE f[x]]

(***************************************************************************)
(* csvProcessor.js: the helpers of processCSVFile.                         *)
(***************************************************************************)
\* cleanupFile(filePath): unlink the file if it exists.
cleanupFile(u) == [exists |-> FALSE, cleanups |-> u.cleanups + 1]

\* setJobFailed keeping no message.
setJobFailedNoMessage(jobId, errorMessage) ==
    [id |-> jobId, total_rows |-> 0, processed_rows |-> 0, successful_rows |-> 0,
     failed_rows |-> 0, errors |-> <<>>, status |-> "failed"]

\* The arguments setJobFailed gives updateJobProgress.run.
setJobFailed(jobId, errorMessage) ==
    [id |-> jobId, total_rows |-> 0, processed_rows |-> 0, successful_rows |-> 0,
     failed_rows |-> 0, errors |-> <<errorMessage>>, status |-> "failed"]

\* resolve(value) / reject(value): a promise settles once.
Settle(p, state, value) ==
    IF p.state = "pending" THEN [state |-> state, value |-> value] ELSE p

\* updateJobProgress.run(p) by job j: the row is written and the write recorded.
RunUpdate(j, p) ==
    /\ jobs' = updateJobProgress(jobs, p)
    /\ jobWrites' = [jobWrites EXCEPT ![j] = Append(@, [x \in DOMAIN p \ {"id"} |-> p[x]])]

EmptyFileMessage == Msg(0, "CSV file is empty or contains no data rows", <<>>)

ParseErrorMessage == Msg(0, "CSV parse error", <<"Invalid Record Length">>)

(***************************************************************************)
(* routes/reports.js: POST /reports/upload.  The job row is created, then  *)
(* processCSVFile is called: it opens the stream and registers its         *)
(* handlers, and the route answers 202 without awaiting it.                *)
(***************************************************************************)
\* res.status(202).json({ message, jobId, status: 'pending' })
UploadAccepted(jobId) ==
    [route |-> "upload", status |-> 202, jobId |-> jobId, body |-> "pending"]

UploadRoute(jobId, file) ==
    /\ jobId \in uuids
    /\ uuids' = uuids \ {jobId}
    /\ jobs' = createJob(jobs, jobId, 0)
    /\ jobWrites' = With(jobWrites, jobId, <<>>)
    /\ storeCalls' = With(storeCalls, jobId, <<>>)
    /\ csv' = With(csv, jobId, file)
    /\ upload' = With(upload, jobId, [exists |-> TRUE, cleanups |-> 0])
    /\ parser' = With(parser, jobId, [delivered |-> 0, state |-> "flowing", errored |-> FALSE])
    /\ results' = With(results, jobId, <<>>)
    /\ errors' = With(errors, jobId, <<>>)
    /\ rowIndex' = With(rowIndex, jobId, 0)
    /\ headersValidated' = With(headersValidated, jobId, FALSE)
    /\ processingAborted' = With(processingAborted, jobId, FALSE)
    /\ loop' = With(loop, jobId, [pc |-> "pass1", totalRows |-> 0, processedRows |-> 0,
                                  successfulRows |-> 0, failedRows |-> 0])
    /\ promise' = With(promise, jobId, [state |-> "pending", value |-> <<>>])
    /\ responses' = Append(responses, UploadAccepted(jobId))
    /\ UNCHANGED <<client, arg, ret, reports, storeLog>>

(***************************************************************************)
(* The csv-parse stream of one job, as processCSVFile sees it.  It         *)
(* delivers the file's records in order as 'data' events, then 'end', or   *)
(* 'error' in place of 'end' when the file is faulty.  After 'end' it      *)
(* emits nothing.  A stream destroyed by parser.destroy() emits no 'error' *)
(* any more, and emits 'error' at most once; records it had already parsed *)
(* and its 'end' may still reach the handlers after a destroy or an error, *)
(* which is what the handlers' processingAborted checks are there for.     *)
(***************************************************************************)
CanEmitData(j) ==
    /\ parser[j].state \in {"flowing", "destroyed", "errored"}
    /\ parser[j].delivered < Len(csv[j].records)

CanEmitError(j) ==
    /\ parser[j].state = "flowing"
    /\ parser[j].delivered = Len(csv[j].records)
    /\ csv[j].fault

CanEmitEnd(j) ==
    /\ parser[j].delivered = Len(csv[j].records)
    /\ \/ parser[j].state \in {"flowing", "destroyed"} /\ ~csv[j].fault
       \/ parser[j].state = "errored"

(***************************************************************************)
(* processCSVFile: parser.on('data', ...)                                  *)
(***************************************************************************)
\* The 'data' handler without its check of processingAborted.
DataNeverSkips(j) == FALSE

\* if (processingAborted) return;
DataSkipsWhenAborted(j) == processingAborted[j]

\* results.unshift for results.push.
BufferRowFirst(res, row, index) == <<[row |-> row, rowIndex |-> index]>> \o res

\* results.push({ row, rowIndex })
BufferRow(res, row, index) == Append(res, [row |-> row, rowIndex |-> index])

OnData(j) ==
    /\ j \in DOMAIN jobs
    /\ CanEmitData(j)
    /\ LET row == csv[j].records[parser[j].delivered + 1]
           headerValidation == validateHeaders(ObjectKeys(row))
       IN  IF DataSkipsWhenAborted(j)
           THEN /\ parser' = [parser EXCEPT ![j].delivered = @ + 1]
                /\ UNCHANGED <<jobs, jobWrites, upload, results, rowIndex,
                               headersValidated, processingAborted, promise>>
           ELSE IF ~headersValidated[j] /\ ~headerValidation.isValid
           THEN /\ processingAborted' = [processingAborted EXCEPT ![j] = TRUE]
                /\ parser' = [parser EXCEPT ![j].delivered = @ + 1,
                                            ![j].state = "destroyed"]
                /\ RunUpdate(j, setJobFailed(j, headerValidation.error))
                /\ upload' = [upload EXCEPT ![j] = cleanupFile(@)]
                /\ promise' = [promise EXCEPT
                                 ![j] = Settle(@, "rejected", headerValidation.error)]
                /\ UNCHANGED <<results, rowIndex, headersValidated>>
           ELSE /\ parser' = [parser EXCEPT ![j].delivered = @ + 1]
                /\ headersValidated' = [headersValidated EXCEPT ![j] = TRUE]
                /\ rowIndex' = [rowIndex EXCEPT ![j] = @ + 1]
                /\ results' = [results EXCEPT ![j] = BufferRow(@, row, rowIndex[j] + 1)]
                /\ UNCHANGED <<jobs, jobWrites, upload, processingAborted, promise>>
    /\ UNCHANGED <<client, arg, ret, reports, storeCalls, storeLog, responses, uuids, csv, errors, loop>>

(***************************************************************************)
(* processCSVFile: parser.on('error', ...)                                 *)
(***************************************************************************)
\* The 'error' handler without its processingAborted = true.
ErrorLeavesFlag(j) == processingAborted

\* processingAborted = true;
ErrorSetsAborted(j) == [processingAborted EXCEPT ![j] = TRUE]

OnError(j) ==
    /\ j \in DOMAIN jobs
    /\ CanEmitError(j)
    /\ parser' = [parser EXCEPT ![j].state = "errored", ![j].errored = TRUE]
    /\ processingAborted' = ErrorSetsAborted(j)
    /\ RunUpdate(j, setJobFailed(j, ParseErrorMessage))
    /\ upload' = [upload EXCEPT ![j] = cleanupFile(@)]
    /\ promise' = [promise EXCEPT ![j] = Settle(@, "rejected", ParseErrorMessage)]
    /\ UNCHANGED <<client, arg, ret, reports, storeCalls, storeLog, responses, uuids, csv, results, errors,
                   rowIndex, headersValidated, loop>>

(***************************************************************************)
(* processCSVFile: parser.on('end', async ...) up to its first await.      *)
(***************************************************************************)
\* The 'end' handler without its check of processingAborted.
EndNeverSkips(j) == FALSE

\* The 'end' handler returning at once whatever the flag.
EndAlwaysSkips(j) == TRUE

\* if (processingAborted) { ...; return; }
EndSkipsWhenAborted(j) == processingAborted[j]

\* The 'end' handler without its empty-file branch.
NoDataRowsUnchecked(j) == FALSE

\* if (results.length === 0)
NoDataRows(j) == Len(results[j]) = 0

\* The write that starts the row loop leaving total_rows at 0.
ProcessingStartNoTotal(j, totalRows) ==
    [id |-> j, total_rows |-> 0, processed_rows |-> 0, successful_rows |-> 0,
     failed_rows |-> 0, errors |-> <<>>, status |-> "processing"]

\* The arguments of the updateJobProgress.run call that starts the row loop.
ProcessingStart(j, totalRows) ==
    [id |-> j, total_rows |-> totalRows, processed_rows |-> 0, successful_rows |-> 0,
     failed_rows |-> 0, errors |-> <<>>, status |-> "processing"]

\* The resolved value reporting the stored rows as the total.
SummaryOfStored(totalRows, successfulRows, failedRows, errs) ==
    [totalRows |-> successfulRows, successfulRows |-> successfulRows,
     failedRows |-> failedRows, errors |-> errs]

\* The value processCSVFile resolves with.
Summary(totalRows, successfulRows, failedRows, errs) ==
    [totalRows |-> totalRows, successfulRows |-> successfulRows,
     failedRows |-> failedRows, errors |-> errs]

OnEnd(j) ==
    /\ j \in DOMAIN jobs
    /\ CanEmitEnd(j)
    /\ loop[j].pc = "pass1"
    /\ parser' = [parser EXCEPT ![j].state = "ended"]
    /\ IF EndSkipsWhenAborted(j)
       THEN /\ loop' = [loop EXCEPT ![j].pc = "returned"]
            /\ UNCHANGED <<jobs, jobWrites, upload, promise>>
       ELSE IF NoDataRows(j)
       THEN /\ RunUpdate(j, setJobFailed(j, EmptyFileMessage))
            /\ upload' = [upload EXCEPT ![j] = cleanupFile(@)]
            /\ promise' = [promise EXCEPT
                             ![j] = Settle(@, "resolved",
                                           Summary(0, 0, 0, <<EmptyFileMessage>>))]
            /\ loop' = [loop EXCEPT ![j].pc = "returned"]
       ELSE /\ RunUpdate(j, ProcessingStart(j, Len(results[j])))
            /\ IF Len(results[j]) > 0
               THEN \* the loop's first await
                    /\ loop' = [loop EXCEPT ![j] = [pc |-> "rows",
                                                    totalRows |-> Len(results[j]),
                                                    processedRows |-> 0,
                                                    successfulRows |-> 0,
                                                    failedRows |-> 0]]
                    /\ UNCHANGED <<upload, promise>>
               ELSE \* a loop over no rows falls through to the end of the handler
                    /\ loop' = [loop EXCEPT ![j].pc = "returned"]
                    /\ upload' = [upload EXCEPT ![j] = cleanupFile(@)]
                    /\ promise' = [promise EXCEPT
                                     ![j] = Settle(@, "resolved", Summary(0, 0, 0, errors[j]))]
    /\ UNCHANGED <<client, arg, ret, reports, storeCalls, storeLog, responses, uuids, csv, results, errors,
                   rowIndex, headersValidated, processingAborted>>

(***************************************************************************)
(* processCSVFile: one iteration of the row loop, from the timer of its    *)
(* await to the next await (or, after the last row, to the end of the      *)
(* handler).  JavaScript runs it without interleaving.                     *)
(***************************************************************************)
\* The status test off by one row.
ProgressStatusEarly(processedRows, totalRows) ==
    IF processedRows + 1 = totalRows THEN "completed" ELSE "processing"

\* status: processedRows === totalRows ? 'completed' : 'processing'
ProgressStatus(processedRows, totalRows) ==
    IF processedRows = totalRows THEN "completed" ELSE "processing"

\* The row loop with the failedRows++ of the catch block left out.
AfterRowUncountedFailure(l, ok, msgs, errs) ==
    [counters |-> [l EXCEPT !.processedRows = @ + 1,
                            !.successfulRows = IF ok THEN @ + 1 ELSE @,
                            !.failedRows = IF ok \/ msgs = <<>> \/ msgs[1].text = "Database error"
                                           THEN @ ELSE @ + 1],
     errors   |-> errs \o msgs]

\* The row loop with errors.unshift for errors.push.
AfterRowPrepends(l, ok, msgs, errs) ==
    [counters |-> [l EXCEPT !.processedRows = @ + 1,
                            !.successfulRows = IF ok THEN @ + 1 ELSE @,
                            !.failedRows = IF ok THEN @ ELSE @ + 1],
     errors   |-> msgs \o errs]

\* The counters counting every row as successful.
AfterRowCountsEvery(l, ok, msgs, errs) ==
    [counters |-> [l EXCEPT !.processedRows = @ + 1,
                            !.successfulRows = @ + 1],
     errors   |-> errs \o msgs]

\* The counters and messages after a row: ok says whether the row was stored,
\* msgs are the messages it adds.
AfterRow(l, ok, msgs, errs) ==
    [counters |-> [l EXCEPT !.processedRows = @ + 1,
                            !.successfulRows = IF ok THEN @ + 1 ELSE @,
                            !.failedRows = IF ok THEN @ ELSE @ + 1],
     errors   |-> errs \o msgs]

\* The progress write with successfulRows for processedRows.
ProgressUpdateStoredOnly(j, l, errs) ==
    [id |-> j, total_rows |-> l.totalRows, processed_rows |-> l.successfulRows,
     successful_rows |-> l.successfulRows, failed_rows |-> l.failedRows,
     errors |-> errs, status |-> ProgressStatus(l.processedRows, l.totalRows)]

\* The arguments of the updateJobProgress.run call after each row.
ProgressUpdate(j, l, errs) ==
    [id |-> j, total_rows |-> l.totalRows, processed_rows |-> l.processedRows,
     successful_rows |-> l.successfulRows, failed_rows |-> l.failedRows,
     errors |-> errs, status |-> ProgressStatus(l.processedRows, l.totalRows)]

\* The row loop leaving at the first failed row.
LoopDoneOnFailure(l, n) == l.processedRows = n \/ l.failedRows > 0

\* for (const { row, rowIndex } of results): no row is left after this one.
LoopDone(l, n) == l.processedRows = n

\* The row loop with an empty catch block.
RowMessagesSilentCatch(validation, index, answer) ==
    IF ~validation.isValid THEN validation.errors ELSE <<>>

\* The messages a row adds: its validation errors, or the store's error.
RowMessages(validation, index, answer) ==
    IF ~validation.isValid THEN validation.errors
    ELSE IF answer = "ok" THEN <<>>
    ELSE <<Msg(index, "Database error", <<answer>>)>>

\* The row loop calling the store whatever the validation said.
StoreAnswersUnvalidated(validation) == {"ok"} \cup StoreErrors

\* What the store can answer to the row: "none" when the row is invalid and
\* the store is not called, else "ok" or the message of the error it throws.
StoreAnswers(validation) ==
    IF validation.isValid THEN {"ok"} \cup StoreErrors ELSE {"none"}

OnTimer(j) ==
    /\ j \in DOMAIN jobs
    /\ loop[j].pc = "rows"
    /\ LET item       == results[j][loop[j].processedRows + 1]
           validation == validateRow(item.row, item.rowIndex)
       IN  \E answer \in StoreAnswers(validation) :
             LET msgs == RowMessages(validation, item.rowIndex, answer)
                 next == AfterRow(loop[j], answer = "ok", msgs, errors[j])
                 last == LoopDone(next.counters, Len(results[j]))
                 call == [rowIndex |-> item.rowIndex, data |-> validation.data,
                          answer |-> answer]
             IN  /\ reports' = IF answer = "ok"
                               THEN insertOrUpdateReport(reports, validation.data)
                               ELSE reports
                 /\ storeCalls' = IF answer = "none" THEN storeCalls
                                  ELSE [storeCalls EXCEPT ![j] = Append(@, call)]
                 /\ storeLog' = IF answer = "ok"
                                THEN Append(storeLog, [by |-> j, data |-> validation.data])
                                ELSE storeLog
                 /\ errors' = [errors EXCEPT ![j] = next.errors]
                 /\ RunUpdate(j, ProgressUpdate(j, next.counters, next.errors))
                 /\ IF last
                    THEN /\ loop' = [loop EXCEPT ![j] = [next.counters EXCEPT !.pc = "returned"]]
                         /\ upload' = [upload EXCEPT ![j] = cleanupFile(@)]
                         /\ promise' = [promise EXCEPT
                                          ![j] = Settle(@, "resolved",
                                                Summary(next.counters.totalRows,
                                                        next.counters.successfulRows,
                                                        next.counters.failedRows,
                                                        next.errors))]
                    ELSE /\ loop' = [loop EXCEPT ![j] = next.counters]
                         /\ UNCHANGED <<upload, promise>>
    /\ UNCHANGED <<client, arg, ret, responses, uuids, csv, parser, results, rowIndex, headersValidated,
                   processingAborted>>

(***************************************************************************)
(* routes/reports.js: POST /report.  The handler is synchronous: validate, *)
(* answer 400 with the messages, or upsert and answer 201; an upsert that  *)
(* throws is caught and answered 500.                                      *)
(***************************************************************************)
ReportResponse(status, body) ==
    [route |-> "report", status |-> status, jobId |-> "", body |-> body]

\* The POST /report requests answered so far.
Posted == Len(SelectSeq(responses, LAMBDA r : r.route = "report"))

\* The handler calling insertOrUpdateReport.run before it looks at the
\* validation.
ReportRouteUpsertsFirst(body) ==
    /\ Posted < MaxPosts
    /\ LET validation == validateReport(body)
       IN  /\ reports' = insertOrUpdateReport(reports, validation.data)
           /\ storeLog' = Append(storeLog, [by |-> "report", data |-> validation.data])
           /\ responses' = Append(responses,
                                  IF validation.isValid
                                  THEN ReportResponse(201, validation.data)
                                  ELSE ReportResponse(400, validation.errors))
    /\ UNCHANGED <<client, arg, ret, jobs, jobWrites, storeCalls, uuids, csv, upload, parser,
                   results, errors, rowIndex, headersValidated, processingAborted, loop,
                   promise>>

\* validateReport(req.body) for the bodies of the runs, computed once.
ReportValidations == [body \in ReportBodies |-> validateReport(body)]

ReportRoute(body) ==
    /\ Posted < MaxPosts
    /\ LET validation == ReportValidations[body]
       IN  IF ~validation.isValid
           THEN /\ responses' = Append(responses, ReportResponse(400, validation.errors))
                /\ UNCHANGED <<reports, storeLog>>
           ELSE \E answer \in StoreAnswers(validation) :
                  IF answer = "ok"
                  THEN /\ reports' = insertOrUpdateReport(reports, validation.data)
                       /\ storeLog' = Append(storeLog, [by |-> "report",
                                                        data |-> validation.data])
                       /\ responses' = Append(responses,
                                              ReportResponse(201, validation.data))
                  ELSE /\ responses' = Append(responses,
                                              ReportResponse(500, "Failed to submit report"))
                       /\ UNCHANGED <<reports, storeLog>>
    /\ UNCHANGED <<client, arg, ret, jobs, jobWrites, storeCalls, uuids, csv, upload, parser, results,
                   errors, rowIndex, headersValidated, processingAborted, loop, promise>>

(***************************************************************************)
(* The system: uploads arrive, and the event loop runs one callback at a   *)
(* time.                                                                   *)
(***************************************************************************)
Upload == \E jobId \in uuids, file \in CSVFiles : UploadRoute(jobId, file)

Data == \E j \in DOMAIN jobs : OnData(j)

Error == \E j \in DOMAIN jobs : OnError(j)

End == \E j \in DOMAIN jobs : OnEnd(j)

Timer == \E j \in DOMAIN jobs : OnTimer(j)

Next == Upload \/ Data \/ Error \/ End \/ Timer

Spec == Init /\ [][Next]_vars

(***************************************************************************)
(* Fair scheduling: the event loop runs every callback that stays due (a   *)
(* parser event of a stream that has more to deliver, the timer of the     *)
(* row loop's await).                                                      *)
(***************************************************************************)
\* What one iteration of the row loop does to the 'end' handler's position
\* and counters: processedRows++, then successfulRows++ or failedRows++, and
\* the handler returns after the last row.  Every Timer step is such a step
\* and no other step of Next is.
OnTimerTick(j) ==
    /\ j \in DOMAIN jobs
    /\ loop[j].pc = "rows"
    /\ \E ok \in BOOLEAN :
          loop' = [loop EXCEPT
                     ![j] = [AfterRow(@, ok, <<>>, <<>>).counters EXCEPT
                               !.pc = IF LoopDone(AfterRow(loop[j], ok, <<>>, <<>>).counters,
                                                  Len(results[j]))
                                      THEN "returned" ELSE "rows"]]

TimerTick == \E j \in DOMAIN jobs : OnTimerTick(j)

\* The timer of the await fires whenever the loop waits on it; its fairness
\* is stated on TimerTick, the iteration as seen on the loop's counters.
Fairness ==
    /\ WF_vars(Data)
    /\ WF_vars(Error)
    /\ WF_vars(End)
    /\ WF_loop(TimerTick)

SpecFair == Init /\ [][Next]_vars /\ Fairness

(***************************************************************************)
(* Two uploads and single-record submissions at once: the callbacks of the *)
(* two jobs and the POST /report handlers interleave in any order.         *)
(***************************************************************************)
InitConcurrent ==
    /\ jobs = <<>>
    /\ reports = <<>>
    /\ jobWrites = <<>>
    /\ storeCalls = <<>>
    /\ storeLog = <<>>
    /\ responses = <<>>
    /\ uuids = TwoJobIds
    /\ csv = <<>>
    /\ upload = <<>>
    /\ parser = <<>>
    /\ results = <<>>
    /\ errors = <<>>
    /\ rowIndex = <<>>
    /\ headersValidated = <<>>
    /\ processingAborted = <<>>
    /\ loop = <<>>
    /\ promise = <<>>
    /\ arg = <<>>
    /\ ret = <<>>
    /\ dashboard = <<>>
    /\ bulkUpload = <<>>

UploadConcurrent ==
    \E jobId \in uuids, file \in ConcurrentFiles : UploadRoute(jobId, file)

Report == \E body \in ReportBodies : ReportRoute(body)

NextConcurrent == UploadConcurrent \/ Data \/ Error \/ End \/ Timer \/ Report

SpecConcurrent == InitConcurrent /\ [][NextConcurrent]_vars

\* The two jobs by themselves, no single submission arriving.
NextTwoJobs == UploadConcurrent \/ Data \/ Error \/ End \/ Timer

SpecTwoJobs == InitConcurrent /\ [][NextTwoJobs]_vars

(***************************************************************************)
(* One file uploaded twice: the second upload, of the same file, arrives   *)
(* after the first invocation of processCSVFile has settled.               *)
(***************************************************************************)
UploadFirst ==
    /\ jobs = <<>>
    /\ \E jobId \in uuids, file \in TwiceFiles : UploadRoute(jobId, file)

UploadAgain ==
    \E j \in DOMAIN jobs :
        /\ DOMAIN jobs = {j}
        /\ promise[j].state # "pending"
        /\ \E jobId \in uuids : UploadRoute(jobId, csv[j])

NextTwice == UploadFirst \/ UploadAgain \/ Data \/ Error \/ End \/ Timer

SpecTwice == InitConcurrent /\ [][NextTwice]_vars

(***************************************************************************)
(* The Job Store failing.  updateJobProgress.run is a write to the same    *)
(* database as insertOrUpdateReport.run and can throw as it can.  The      *)
(* 'end' handler is an async function and makes its job-store writes       *)
(* outside any try block: a write that throws ends the handler there, its  *)
(* own promise is rejected with nothing awaiting it, and neither           *)
(* cleanupFile nor resolve nor reject is reached.                          *)
(***************************************************************************)
\* The 'end' handler when its first job-store write throws: setJobFailed in
\* the empty-file branch, or the write that starts the row loop.
OnEndThrows(j) ==
    /\ j \in DOMAIN jobs
    /\ CanEmitEnd(j)
    /\ loop[j].pc = "pass1"
    /\ ~EndSkipsWhenAborted(j)
    /\ parser' = [parser EXCEPT ![j].state = "ended"]
    /\ loop' = [loop EXCEPT ![j].pc = "thrown"]
    /\ UNCHANGED <<client, arg, ret, jobs, reports, jobWrites, storeCalls, storeLog, responses, uuids, csv,
                   upload, results, errors, rowIndex, headersValidated,
                   processingAborted, promise>>

\* One iteration of the row loop when its progress write throws: the row was
\* validated, counted and, if valid, given to the Record Store before.
OnTimerThrows(j) ==
    /\ j \in DOMAIN jobs
    /\ loop[j].pc = "rows"
    /\ LET item       == results[j][loop[j].processedRows + 1]
           validation == validateRow(item.row, item.rowIndex)
       IN  \E answer \in StoreAnswers(validation) :
             LET msgs == RowMessages(validation, item.rowIndex, answer)
                 next == AfterRow(loop[j], answer = "ok", msgs, errors[j])
                 call == [rowIndex |-> item.rowIndex, data |-> validation.data,
                          answer |-> answer]
             IN  /\ reports' = IF answer = "ok"
                               THEN insertOrUpdateReport(reports, validation.data)
                               ELSE reports
                 /\ storeCalls' = IF answer = "none" THEN storeCalls
                                  ELSE [storeCalls EXCEPT ![j] = Append(@, call)]
                 /\ storeLog' = IF answer = "ok"
                                THEN Append(storeLog, [by |-> j, data |-> validation.data])
                                ELSE storeLog
                 /\ errors' = [errors EXCEPT ![j] = next.errors]
                 /\ loop' = [loop EXCEPT ![j] = [next.counters EXCEPT !.pc = "thrown"]]
    /\ UNCHANGED <<client, arg, ret, jobs, jobWrites, responses, uuids, csv, upload, parser, results,
                   rowIndex, headersValidated, processingAborted, promise>>

EndThrows == \E j \in DOMAIN jobs : OnEndThrows(j)

TimerThrows == \E j \in DOMAIN jobs : OnTimerThrows(j)

NextFaulty == Upload \/ Data \/ Error \/ End \/ Timer \/ EndThrows \/ TimerThrows

SpecFaulty == Init /\ [][NextFaulty]_vars

(***************************************************************************)
(* The validators by themselves: validateRow, validateReport and           *)
(* validateHeaders are pure functions, and a run of SpecValidators calls   *)
(* them, once each, on one argument drawn from the sets below.             *)
(***************************************************************************)
\* Values a field of a record can hold: well-formed ones, ones that need
\* trimming, blank and empty ones, numbers with a tail of letters or a
\* fraction, negative ones, and text that is no number.
NgoIdValues == {<<"N", "G", "O", "0", "0", "1">>, <<" ", "N", "1", " ">>, <<" ", " ">>, <<>>}

MonthValues ==
    {<<"2", "0", "2", "4", "-", "0", "1">>, <<"2", "0", "2", "4", "-", "1", "3">>,
     <<"2", "0", "2", "4", "-", "1">>, <<>>}

PeopleHelpedValues == {<<"1", "5", "0">>, <<"1", "2", "a">>, <<"-", "5">>, <<"a", "b", "c">>}

EventsConductedValues == {<<"5">>, <<"1", ".", "5">>, <<"-", "1">>}

FundsUtilizedValues == {<<"6", "0", ".", "5", "0">>, <<"-", "0", ".", "5">>, <<"x">>}

FieldLines ==
    {<<a, b, c, d, f>> : a \in NgoIdValues, b \in MonthValues, c \in PeopleHelpedValues,
                         d \in EventsConductedValues, f \in FundsUtilizedValues}

\* The field maps given to the two record validators: every combination of
\* the values above, with all five fields, without month, and without ngo_id
\* (its key spelled Ngo_Id), month and funds_utilized.
FieldMaps ==
    {RecordOf(h, l) : h \in {HeaderExact, HeaderNoMonth, HeaderNoMonthNoFunds},
                      l \in FieldLines}

\* Spellings of a required column name in a header line: absent, as it is,
\* and in upper case between blanks.
Spellings(name) ==
    {<<>>, <<name>>, <<<<" ">> \o [i \in DOMAIN name |->
                                    IF \E u \in DOMAIN LowerCase : LowerCase[u] = name[i]
                                    THEN UpperCase[CHOOSE u \in DOMAIN LowerCase :
                                                      LowerCase[u] = name[i]]
                                    ELSE name[i]] \o <<" ", " ">>>>}

Reverse(s) == [i \in DOMAIN s |-> s[Len(s) + 1 - i]]

\* The header lines given to validateHeaders: each required name absent or
\* in one of its spellings, in the required order or reversed, with or
\* without a column the pipeline does not know.
HeaderNames ==
    LET base == {a \o b \o c \o d \o f :
                    a \in Spellings(ngo_id), b \in Spellings(month),
                    c \in Spellings(people_helped), d \in Spellings(events_conducted),
                    f \in Spellings(funds_utilized)}
        more == base \cup {<<<<"n", "o", "t", "e", "s">>>> \o h : h \in base}
    IN  more \cup {Reverse(h) : h \in more}

ValidatorArgs ==
    {[kind |-> "record", row |-> r, rowIndex |-> i] : r \in FieldMaps, i \in 1..MaxRows}
    \cup {[kind |-> "headers", headers |-> h] : h \in HeaderNames}

\* No upload and no request: the tables are empty and nothing runs.
ServerIdle ==
    /\ jobs = <<>>
    /\ reports = <<>>
    /\ jobWrites = <<>>
    /\ storeCalls = <<>>
    /\ storeLog = <<>>
    /\ responses = <<>>
    /\ uuids = JobIds
    /\ csv = <<>>
    /\ upload = <<>>
    /\ parser = <<>>
    /\ results = <<>>
    /\ errors = <<>>
    /\ rowIndex = <<>>
    /\ headersValidated = <<>>
    /\ processingAborted = <<>>
    /\ loop = <<>>
    /\ promise = <<>>

InitValidators ==
    /\ ServerIdle
    /\ arg \in ValidatorArgs
    /\ ret = <<>>
    /\ dashboard = <<>>
    /\ bulkUpload = <<>>

\* A call of the function of this name, returning value.
Returns(name, value) ==
    /\ name \notin DOMAIN ret
    /\ ret' = With(ret, name, value)
    /\ UNCHANGED <<server, client, arg>>

CallValidateRow ==
    /\ arg.kind = "record"
    /\ Returns("validateRow", validateRow(arg.row, arg.rowIndex))

CallValidateReport ==
    /\ arg.kind = "record"
    /\ Returns("validateReport", validateReport(arg.row))

CallValidateHeaders ==
    /\ arg.kind = "headers"
    /\ Returns("validateHeaders", validateHeaders(arg.headers))

NextValidators == CallValidateRow \/ CallValidateReport \/ CallValidateHeaders

SpecValidators == InitValidators /\ [][NextValidators]_vars

(***************************************************************************)
(* database.js and routes/reports.js: the dashboard read.  The two queries *)
(* are functions of the reports table and their arguments.                 *)
(***************************************************************************)
\* The characters of the model's texts in the order of their codes, which is
\* the order SQLite's BINARY collation compares TEXT by.
CharOrder ==
    <<" ", "+", "-", ".">> \o Digits \o UpperCase \o <<"_">> \o LowerCase

CharCode(c) == CHOOSE i \in DOMAIN CharOrder : CharOrder[i] = c

RECURSIVE TextLess(_, _)
\* a < b on TEXT values.
TextLess(a, b) ==
    IF b = <<>> THEN FALSE
    ELSE IF a = <<>> THEN TRUE
    ELSE IF Head(a) = Head(b) THEN TextLess(Tail(a), Tail(b))
    ELSE CharCode(Head(a)) < CharCode(Head(b))

\* a <= b on TEXT values.
TextLeq(a, b) == a = b \/ TextLess(a, b)

RECURSIVE LikeMatch(_, _)
\* x LIKE pattern, as SQLite evaluates it by default: % stands for any run
\* of characters, _ for any one character, and a letter matches in either
\* case (PRAGMA case_sensitive_like is off).
LikeMatch(x, pattern) ==
    IF pattern = <<>> THEN x = <<>>
    ELSE IF Head(pattern) = "%"
    THEN LikeMatch(x, Tail(pattern)) \/ (x # <<>> /\ LikeMatch(Tail(x), pattern))
    ELSE /\ x # <<>>
         /\ Head(pattern) = "_" \/ toLowerCase(<<Head(x)>>) = toLowerCase(<<Head(pattern)>>)
         /\ LikeMatch(Tail(x), Tail(pattern))

\* x LIKE ? with `%${part}%` bound to the parameter.
Like(x, part) == LikeMatch(x, <<"%">> \o part \o <<"%">>)

\* The WHERE clause with month > ? and month < ? for >= and <=.
MatchesExclusive(r, filters) ==
    /\ Falsy(filters.monthFrom) \/ TextLess(filters.monthFrom, r.month)
    /\ Falsy(filters.monthTo) \/ TextLess(r.month, filters.monthTo)
    /\ Falsy(filters.ngoId) \/ Like(r.ngo_id, filters.ngoId)

\* The WHERE clause both queries build from the filters.
Matches(r, filters) ==
    /\ Falsy(filters.monthFrom) \/ TextLeq(filters.monthFrom, r.month)
    /\ Falsy(filters.monthTo) \/ TextLeq(r.month, filters.monthTo)
    /\ Falsy(filters.ngoId) \/ Like(r.ngo_id, filters.ngoId)

\* x + y on numbers that are not NaN.
Plus(x, y) ==
    LET sc == IF x.scale > y.scale THEN x.scale ELSE y.scale
    IN  Normalize(Number(x.num * 10^(sc - x.scale) + y.num * 10^(sc - y.scale), sc))

\* SQL NULL among the numbers of a query result.
Null == [null |-> TRUE]

RECURSIVE Sum(_, _)
\* SUM(column) over rows: NULL when there is no row.
Sum(rows, column) ==
    IF rows = <<>> THEN Null
    ELSE IF Len(rows) = 1 THEN rows[1][column]
    ELSE Plus(Sum(SubSeq(rows, 1, Len(rows) - 1), column), rows[Len(rows)][column])

\* x || 0 for a query result: NULL and 0 become 0.
OrZeroOfNull(x) == IF x = Null THEN Number(0, 0) ELSE OrZero(x)

\* The query with COUNT(ngo_id) for COUNT(DISTINCT ngo_id).
getFilteredDashboardStatsCountAll(rs, filters) ==
    LET IsMatch(r) == Matches(r, filters)
        rows       == SelectSeq(rs, IsMatch)
    IN  [total_ngos             |-> Number(Len(rows), 0),
         total_people_helped    |-> Sum(rows, "people_helped"),
         total_events_conducted |-> Sum(rows, "events_conducted"),
         total_funds_utilized   |-> Sum(rows, "funds_utilized")]

\* SELECT COUNT(DISTINCT ngo_id), SUM(people_helped), SUM(events_conducted),
\* SUM(funds_utilized) FROM reports WHERE ...
getFilteredDashboardStats(rs, filters) ==
    LET IsMatch(r) == Matches(r, filters)
        rows       == SelectSeq(rs, IsMatch)
    IN  [total_ngos             |-> Number(Cardinality({rows[i].ngo_id : i \in DOMAIN rows}), 0),
         total_people_helped    |-> Sum(rows, "people_helped"),
         total_events_conducted |-> Sum(rows, "events_conducted"),
         total_funds_utilized   |-> Sum(rows, "funds_utilized")]

\* ORDER BY month DESC, ngo_id ASC: r comes before q.
Before(r, q) ==
    \/ TextLess(q.month, r.month)
    \/ r.month = q.month /\ TextLess(r.ngo_id, q.ngo_id)

\* The rows in that order (no two rows have the same month and ngo_id).
OrderBy(rows) ==
    LET n == Len(rows)
        Rank(i) == 1 + Cardinality({k \in 1..n : Before(rows[k], rows[i])})
    IN  [p \in 1..n |-> rows[CHOOSE i \in 1..n : Rank(i) = p]]

\* hasMore with <= for <.
HasMoreInclusive(offset, returned, totalRecords) == offset + returned <= totalRecords

\* hasMore: offset + reports.length < totalRecords
HasMore(offset, returned, totalRecords) == offset + returned < totalRecords

\* The query with OFFSET ? + 1: each page starts one row late.
getFilteredReportsOneLate(rs, filters, offset, limit) ==
    LET IsMatch(r)   == Matches(r, filters)
        rows         == OrderBy(SelectSeq(rs, IsMatch))
        totalRecords == Len(rows)
        last         == IF offset + 1 + limit < totalRecords THEN offset + 1 + limit
                        ELSE totalRecords
        page         == SubSeq(rows, offset + 2, last)
    IN  [reports      |-> page,
         totalRecords |-> totalRecords,
         hasMore      |-> HasMore(offset, Len(page), totalRecords)]

\* SELECT COUNT(*) ...; SELECT * ... ORDER BY ... LIMIT ? OFFSET ?
getFilteredReports(rs, filters, offset, limit) ==
    LET IsMatch(r)   == Matches(r, filters)
        rows         == OrderBy(SelectSeq(rs, IsMatch))
        totalRecords == Len(rows)
        last         == IF offset + limit < totalRecords THEN offset + limit
                        ELSE totalRecords
        page         == SubSeq(rows, offset + 1, last)
    IN  [reports      |-> page,
         totalRecords |-> totalRecords,
         hasMore      |-> HasMore(offset, Len(page), totalRecords)]

\* The limit without its upper clamp.
limitNumUnclamped(limit) ==
    LET parsed == parseInt(limit)
        n      == IF isNaN(parsed) \/ parsed.num = 0 THEN 20 ELSE parsed.num
    IN  IF n < 1 THEN 1 ELSE n

\* Math.max(0, parseInt(offset) || 0)
offsetNum(offset) ==
    LET n == OrZero(parseInt(offset)).num
    IN  IF n < 0 THEN 0 ELSE n

\* Math.min(100, Math.max(1, parseInt(limit) || 20))
limitNum(limit) ==
    LET parsed == parseInt(limit)
        n      == IF isNaN(parsed) \/ parsed.num = 0 THEN 20 ELSE parsed.num
        m      == IF n < 1 THEN 1 ELSE n
    IN  IF m > 100 THEN 100 ELSE m

\* const { ..., offset = '0', limit = '20' } = req.query
OrDefault(x, text) == IF x = Undefined THEN text ELSE x

\* x || null, for a text x
OrNull(x) == IF Falsy(x) THEN <<"null">> ELSE x

BadMonth(name) == [status |-> 400, error |-> <<"Invalid ", name, " format. Use YYYY-MM">>]

\* router.get('/dashboard'): what it answers to the query, the reports table
\* being rs.
DashboardRoute(rs, query) ==
    LET single  == ~Falsy(query.month)
        filters == [monthFrom |-> IF single THEN query.month ELSE query.month_from,
                    monthTo   |-> IF single THEN query.month ELSE query.month_to,
                    ngoId     |-> IF ~Falsy(query.ngo_id) /\ ~Falsy(trim(query.ngo_id))
                                  THEN trim(query.ngo_id) ELSE Undefined]
        offset  == offsetNum(OrDefault(query.offset, <<"0">>))
        limit   == limitNum(OrDefault(query.limit, <<"2", "0">>))
        stats   == getFilteredDashboardStats(rs, filters)
        found   == getFilteredReports(rs, filters, offset, limit)
    IN  IF single /\ ~IsYearMonth(query.month) THEN BadMonth("month")
        ELSE IF ~single /\ ~Falsy(query.month_from) /\ ~IsYearMonth(query.month_from)
        THEN BadMonth("month_from")
        ELSE IF ~single /\ ~Falsy(query.month_to) /\ ~IsYearMonth(query.month_to)
        THEN BadMonth("month_to")
        ELSE [status     |-> 200,
              filters    |-> [monthFrom |-> OrNull(filters.monthFrom),
                              monthTo   |-> OrNull(filters.monthTo),
                              ngoId     |-> OrNull(filters.ngoId)],
              summary    |-> [totalNgosReporting   |-> OrZeroOfNull(stats.total_ngos),
                              totalPeopleHelped    |-> OrZeroOfNull(stats.total_people_helped),
                              totalEventsConducted |-> OrZeroOfNull(stats.total_events_conducted),
                              totalFundsUtilized   |-> OrZeroOfNull(stats.total_funds_utilized)],
              reports    |-> found.reports,
              pagination |-> [offset |-> offset, limit |-> limit,
                              totalRecords |-> found.totalRecords,
                              hasMore |-> found.hasMore]]

(***************************************************************************)
(* The dashboard read by itself: one GET /dashboard on a reports table     *)
(* that upserts of validated records have made.                            *)
(***************************************************************************)
LineD == << <<"N", "G", "O", "0", "0", "2">>, <<"2", "0", "2", "4", "-", "0", "1">>,
            <<"1", "0">>, <<"1">>, <<"0", ".", "2", "5">> >>

LineE == << <<"N", "G", "O", "0", "0", "1">>, <<"2", "0", "2", "4", "-", "0", "2">>,
            <<"7">>, <<"2">>, <<"9", "9", ".", "7", "5">> >>

\* The records the tables are made of: two NGOs in one month, one of them
\* in another month too, and one in a month that is no calendar month.
DashboardData ==
    {validateRow(RecordOf(HeaderExact, l), 1).data : l \in {LineA, LineB, LineD, LineE}}

RECURSIVE Upserted(_)
\* The reports table after upserts of these records, in this order.
Upserted(ds) ==
    IF ds = <<>> THEN <<>>
    ELSE insertOrUpdateReport(Upserted(SubSeq(ds, 1, Len(ds) - 1)), ds[Len(ds)])

DashboardTables ==
    {Upserted(ds) : ds \in UNION {[1..n -> DashboardData] : n \in 0..MaxRows}}

\* Raw values of the offset and limit parameters: absent, zero, in range,
\* negative, too large, no number, empty.
RawOffsets ==
    {Undefined, <<"0">>, <<"1">>, <<"2">>, <<"5">>, <<"-", "3">>, <<"a", "b", "c">>, <<>>}

RawLimits ==
    {Undefined, <<"0">>, <<"1">>, <<"2">>, <<"2", "0">>, <<"1", "0", "0">>,
     <<"1", "5", "0">>, <<"-", "5">>, <<"a", "b", "c">>}

Month01 == <<"2", "0", "2", "4", "-", "0", "1">>

Month02 == <<"2", "0", "2", "4", "-", "0", "2">>

\* The queries: every pair of raw offset and limit without a filter, and
\* every combination of the filters with some offsets and limits.
DashboardQueries ==
    {[month |-> Undefined, month_from |-> Undefined, month_to |-> Undefined,
      ngo_id |-> Undefined, offset |-> o, limit |-> l] :
        o \in RawOffsets, l \in RawLimits}
    \cup
    {[month |-> m, month_from |-> f, month_to |-> t, ngo_id |-> n,
      offset |-> o, limit |-> l] :
        m \in {Undefined, Month01, <<"2", "0", "2", "4", "-", "1">>},
        f \in {Undefined, Month02, <<"x">>},
        t \in {Undefined, Month01},
        n \in {Undefined, <<"n", "g", "o", "0", "0", "1">>, <<" ", "0", "0", "2">>, <<" ">>,
               <<"O", "_", "0", "1">>},
        o \in {Undefined, <<"1">>},
        l \in {Undefined, <<"1">>}}

InitDashboard ==
    /\ jobs = <<>>
    /\ reports \in DashboardTables
    /\ jobWrites = <<>>
    /\ storeCalls = <<>>
    /\ storeLog = <<>>
    /\ responses = <<>>
    /\ uuids = JobIds
    /\ csv = <<>>
    /\ upload = <<>>
    /\ parser = <<>>
    /\ results = <<>>
    /\ errors = <<>>
    /\ rowIndex = <<>>
    /\ headersValidated = <<>>
    /\ processingAborted = <<>>
    /\ loop = <<>>
    /\ promise = <<>>
    /\ arg \in {[kind |-> "dashboard", query |-> q] : q \in DashboardQueries}
    /\ ret = <<>>
    /\ dashboard = <<>>
    /\ bulkUpload = <<>>

CallDashboard ==
    /\ arg.kind = "dashboard"
    /\ Returns("dashboard", DashboardRoute(reports, arg.query))

\* The request with month_from and month_to both set to the month of the
\* query, in place of its month parameter.
RangeOfMonth(query) ==
    [query EXCEPT !.month = Undefined, !.month_from = query.month,
                  !.month_to = query.month]

CallDashboardRange ==
    /\ arg.kind = "dashboard"
    /\ ~Falsy(arg.query.month)
    /\ Returns("dashboardRange", DashboardRoute(reports, RangeOfMonth(arg.query)))

\* The raw parameter is the decimal notation of a whole number >= 0.
IsCount(raw) == raw # Undefined /\ raw # <<>> /\ DigitPrefix(raw) = raw

RECURSIVE NumberText(_)
\* String(n) for a whole number n >= 0, as a query string carries it.
NumberText(n) ==
    IF n < 10 THEN <<Digits[n + 1]>>
    ELSE NumberText(n \div 10) \o <<Digits[(n % 10) + 1]>>

RECURSIVE FetchPages(_, _, _, _)
\* GET /dashboard with the filters and the limit of the query at this offset,
\* then at offset + limit, and so on while the answer says hasMore (and at
\* most left times): the answers in order.
FetchPages(rs, query, offset, left) ==
    LET response == DashboardRoute(rs, [query EXCEPT !.offset = NumberText(offset)])
    IN  IF response.status # 200 \/ ~response.pagination.hasMore \/ left <= 1
        THEN <<response>>
        ELSE <<response>>
             \o FetchPages(rs, query, offset + DigitsValue(query.limit), left - 1)

\* The dashboard read page after page from offset 0, the reports table not
\* changing in between, with a limit that is a whole number in 1..100.
CallPages ==
    /\ arg.kind = "dashboard"
    /\ arg.query.offset = Undefined
    /\ IsCount(arg.query.limit) /\ DigitsValue(arg.query.limit) \in 1..100
    /\ Returns("pages", FetchPages(reports, arg.query, 0, Len(reports) + 1))

NextDashboard == CallDashboard \/ CallDashboardRange \/ CallPages

SpecDashboard == InitDashboard /\ [][NextDashboard]_vars

(***************************************************************************)
(* Notions the properties below are stated with.                           *)
(***************************************************************************)
\* The invocation of processCSVFile for job j has settled its promise.
Over(j) == promise[j].state # "pending"

Terminal == {"completed", "failed"}

\* The positions of job j's terminal writes among its job-store writes.
TerminalWrites(j) == {i \in DOMAIN jobWrites[j] : jobWrites[j][i].status \in Terminal}

\* The job has, at some point, been written with this status.
Written(j, status) == \E i \in DOMAIN jobWrites[j] : jobWrites[j][i].status = status

\* The file's header line has every required column.
HeaderComplete(file) == validateHeaders(file.headers).isValid

\* The 1-based positions of the file's records that fail row validation.
InvalidRows(file) ==
    {i \in DOMAIN file.records : ~validateRow(file.records[i], i).isValid}

\* The store calls of job j that threw.
Rejections(j) == {i \in DOMAIN storeCalls[j] : storeCalls[j][i].answer # "ok"}

(***************************************************************************)
(* C1.  The persisted status of a job changes only along                   *)
(* pending -> processing, pending -> failed or processing -> completed:    *)
(* every step that changes a job's status makes one of these three moves.  *)
(***************************************************************************)
AllowedTransitions ==
    {<<"pending", "processing">>, <<"pending", "failed">>, <<"processing", "completed">>}

C1_StatusTransitions ==
    [][\A j \in DOMAIN jobs :
         jobs'[j].status # jobs[j].status
           => <<jobs[j].status, jobs'[j].status>> \in AllowedTransitions]_vars

\* A job that went pending -> processing -> completed over several rows.
C1_Witness ==
    \E j \in DOMAIN jobs :
        /\ jobs[j].status = "completed"
        /\ Len(jobWrites[j]) >= 3
        /\ jobWrites[j][1].status = "processing"

(***************************************************************************)
(* C2.  A job gets at most one job-store write with a terminal status      *)
(* (completed or failed), that write is the last write to its record, and  *)
(* once the invocation has settled there is exactly one.                   *)
(***************************************************************************)
C2_OneTerminalWrite ==
    \A j \in DOMAIN jobs :
        /\ Cardinality(TerminalWrites(j)) <= 1
        /\ \A i \in TerminalWrites(j) : i = Len(jobWrites[j])
        /\ (Over(j) \/ jobs[j].status \in Terminal) => Cardinality(TerminalWrites(j)) = 1

\* A header failure on the first record, with every later event of the
\* stream delivered to the handlers since.
C2_Witness ==
    \E j \in DOMAIN jobs :
        /\ jobs[j].status = "failed"
        /\ parser[j].state = "ended"
        /\ parser[j].delivered >= 2
        /\ ~HeaderComplete(csv[j])

(***************************************************************************)
(* C3.  In every persisted state of a job, and in every row ever written   *)
(* for it, processed_rows = successful_rows + failed_rows.                 *)
(***************************************************************************)
C3_ProcessedIsSum ==
    \A j \in DOMAIN jobs :
        /\ jobs[j].processed_rows = jobs[j].successful_rows + jobs[j].failed_rows
        /\ \A i \in DOMAIN jobWrites[j] :
             jobWrites[j][i].processed_rows =
                 jobWrites[j][i].successful_rows + jobWrites[j][i].failed_rows

\* A job in the middle of its row loop with stored and failed rows behind it.
C3_Witness ==
    \E j \in DOMAIN jobs :
        /\ jobs[j].status = "processing"
        /\ jobs[j].successful_rows >= 1
        /\ jobs[j].failed_rows >= 1
        /\ Rejections(j) # {}

(***************************************************************************)
(* C4.  A file whose header has every required column and whose stream     *)
(* delivers its N >= 1 records and ends: the invocation is never stuck, and *)
(* when it is over the job is completed with total_rows = N and             *)
(* processed_rows = successful_rows + failed_rows = N, whatever rows are    *)
(* invalid or rejected by the store.                                        *)
(***************************************************************************)
C4_CompletesWithAllRows ==
    \A j \in DOMAIN jobs :
        LET n == Len(csv[j].records)
        IN  (HeaderComplete(csv[j]) /\ n >= 1 /\ ~csv[j].fault)
              => /\ Over(j) =>
                      /\ jobs[j].status = "completed"
                      /\ jobs[j].total_rows = n
                      /\ jobs[j].processed_rows = n
                      /\ jobs[j].successful_rows + jobs[j].failed_rows = n
                 /\ ~Over(j) => CanEmitData(j) \/ CanEmitEnd(j) \/ loop[j].pc = "rows"

\* A finished job of three rows, some stored, one invalid, one rejected.
C4_Witness ==
    \E j \in DOMAIN jobs :
        /\ Over(j)
        /\ jobs[j].total_rows = 3
        /\ jobs[j].successful_rows >= 1
        /\ InvalidRows(csv[j]) # {}
        /\ Rejections(j) # {}

(***************************************************************************)
(* C5.  Row isolation.                                                     *)
(***************************************************************************)
\* The normalized data of the file's valid rows, in row order.
ValidData(file) ==
    LET IsValidAt(i) == i \notin InvalidRows(file)
        idx == SelectSeq([i \in DOMAIN file.records |-> i], IsValidAt)
    IN  [k \in DOMAIN idx |-> validateRow(file.records[idx[k]], idx[k]).data]

\* The data job j's store calls committed, in call order.
Committed(j) ==
    LET IsOk(c) == c.answer = "ok"
        ok == SelectSeq(storeCalls[j], IsOk)
    IN  [k \in DOMAIN ok |-> ok[k].data]

\* The reports table has a record for the key of d.
Stored(d) == \E i \in DOMAIN reports : reports[i].ngo_id = d.ngo_id /\ reports[i].month = d.month

\* Job j is completed with one failed row and every other row upserted.
IsolatedOutcome(j) ==
    /\ jobs[j].status = "completed"
    /\ jobs[j].failed_rows = 1
    /\ jobs[j].successful_rows = Len(csv[j].records) - 1
    /\ Committed(j) = ValidData(csv[j])
    /\ \A k \in DOMAIN ValidData(csv[j]) : Stored(ValidData(csv[j])[k])

\* A complete header, a stream that ends, exactly one row failing validation.
OneBadRow(j) ==
    /\ HeaderComplete(csv[j])
    /\ ~csv[j].fault
    /\ Cardinality(InvalidRows(csv[j])) = 1

MissingColumns(file) ==
    {r \in Range(REQUIRED_HEADERS) :
        \A i \in DOMAIN file.headers : trim(toLowerCase(file.headers[i])) # r}

HeaderIncomplete(file) == file.headers # <<>> /\ MissingColumns(file) # {}

\* The job is failed with total_rows = 0 and a single message.
FailedWithOneMessage(j) ==
    /\ jobs[j].status = "failed"
    /\ jobs[j].total_rows = 0
    /\ Len(jobs[j].errors) = 1

\* The job's single message is the missing-columns one and names them all.
NamesMissingColumns(j) ==
    /\ jobs[j].errors[1].text = "Missing required columns"
    /\ Range(jobs[j].errors[1].detail) = MissingColumns(csv[j])

\* C6 as claimed: every file whose header lacks required columns ends failed
\* with total_rows = 0 and one message naming every missing column.
C6_AsClaimed ==
    \A j \in DOMAIN jobs :
        (HeaderIncomplete(csv[j]) /\ Over(j))
          => FailedWithOneMessage(j) /\ NamesMissingColumns(j)

\* C6 as amended: such a file ends failed with total_rows = 0 and exactly
\* one message; the message names every missing column when the stream
\* delivered a data record, and is the empty-file or parse-error message when
\* the stream ended or failed before the first record.
C6_MissingColumns ==
    \A j \in DOMAIN jobs :
        (HeaderIncomplete(csv[j]) /\ Over(j))
          => /\ FailedWithOneMessage(j)
             /\ parser[j].delivered >= 1 => NamesMissingColumns(j)
             /\ parser[j].delivered = 0
                  => jobs[j].errors[1] =
                       IF csv[j].fault THEN ParseErrorMessage ELSE EmptyFileMessage

\* A job failed on the first record of a file missing two columns.
C6_Witness ==
    \E j \in DOMAIN jobs :
        /\ Over(j)
        /\ Cardinality(MissingColumns(csv[j])) = 2
        /\ parser[j].delivered >= 1
        /\ csv[j].headers # <<>>

(***************************************************************************)
(* C7.  A stream that ends without having delivered any data record and    *)
(* without a parse error (empty file, header-only file): the job is failed *)
(* with total_rows = 0 and the empty-file message as its only message, the *)
(* invocation is over, and no write ever gave the job status processing.   *)
(***************************************************************************)
C7_EmptyFileFails ==
    \A j \in DOMAIN jobs :
        (parser[j].state = "ended" /\ Len(csv[j].records) = 0 /\ ~parser[j].errored)
          => /\ jobs[j].status = "failed"
             /\ jobs[j].total_rows = 0
             /\ jobs[j].errors = <<EmptyFileMessage>>
             /\ ~Written(j, "processing")
             /\ Over(j)

\* A header-only file whose stream has ended.
C7_Witness ==
    \E j \in DOMAIN jobs :
        /\ parser[j].state = "ended"
        /\ csv[j].headers # <<>>
        /\ Len(csv[j].records) = 0
        /\ ~parser[j].errored

(***************************************************************************)
(* C8.  Once the stream has raised a parse error, whatever was buffered    *)
(* before it and whatever the stream delivers after it, the job is failed  *)
(* with total_rows = 0 and the parse-error message, and the row loop has   *)
(* not started: no processing write, no store call.                        *)
(***************************************************************************)
C8_ParseErrorIsFatal ==
    \A j \in DOMAIN jobs :
        parser[j].errored
          => /\ jobs[j].status = "failed"
             /\ jobs[j].total_rows = 0
             /\ jobs[j].errors = <<ParseErrorMessage>>
             /\ loop[j].pc # "rows"
             /\ ~Written(j, "processing")
             /\ storeCalls[j] = <<>>

\* A parse error after two buffered rows, the stream's 'end' delivered since.
C8_Witness ==
    \E j \in DOMAIN jobs :
        /\ parser[j].errored
        /\ parser[j].state = "ended"
        /\ headersValidated[j]
        /\ Len(results[j]) >= 2

(***************************************************************************)
(* C9.  A job that was ever written failed has made no Record Store call,  *)
(* and after a header validation failure no record is buffered: results    *)
(* stays empty and rowIndex stays 0 whatever 'data' events follow.         *)
(***************************************************************************)
C9_FailedJobStoresNothing ==
    \A j \in DOMAIN jobs :
        Written(j, "failed")
          => /\ storeCalls[j] = <<>>
             /\ loop[j].pc # "rows"
             /\ (~HeaderComplete(csv[j]) /\ parser[j].delivered >= 1)
                  => results[j] = <<>> /\ rowIndex[j] = 0 /\ ~headersValidated[j]

\* A header failure followed by two more 'data' events.
C9_Witness ==
    \E j \in DOMAIN jobs :
        /\ Written(j, "failed")
        /\ ~HeaderComplete(csv[j])
        /\ parser[j].delivered = 3

(***************************************************************************)
(* C10.  A row that passed validation and whose upsert the Record Store    *)
(* rejected is counted in failed_rows and not in successful_rows, adds     *)
(* exactly one message, which carries its row index and the store's cause, *)
(* and does not stop the loop: the job is still taking rows, or completed. *)
(***************************************************************************)
\* How many times message m occurs in the list errs.
Occurrences(m, errs) == Cardinality({i \in DOMAIN errs : errs[i] = m})

C10_StoreRejectionIsRowFailure ==
    \A j \in DOMAIN jobs :
        Rejections(j) # {}
          => /\ \A i \in Rejections(j) :
                  LET c == storeCalls[j][i]
                  IN  /\ c.rowIndex \notin InvalidRows(csv[j])
                      /\ Occurrences(Msg(c.rowIndex, "Database error", <<c.answer>>),
                                     jobs[j].errors) = 1
             /\ jobs[j].failed_rows =
                  Cardinality(Rejections(j))
                    + Cardinality(InvalidRows(csv[j]) \cap (1..jobs[j].processed_rows))
             /\ jobs[j].successful_rows = Len(storeCalls[j]) - Cardinality(Rejections(j))
             /\ Len(jobs[j].errors) >= Cardinality(Rejections(j))
             /\ \/ /\ jobs[j].status = "processing"
                   /\ loop[j].pc = "rows"
                   /\ jobs[j].processed_rows < jobs[j].total_rows
                \/ /\ jobs[j].status = "completed"
                   /\ Over(j)
                   /\ jobs[j].processed_rows = jobs[j].total_rows

\* A completed job whose first row was rejected and whose later row was stored.
C10_Witness ==
    \E j \in DOMAIN jobs :
        /\ jobs[j].status = "completed"
        /\ 1 \in Rejections(j)
        /\ \E i \in DOMAIN storeCalls[j] : i > 1 /\ storeCalls[j][i].answer = "ok"

(***************************************************************************)
(* Notions of the Record Store.                                            *)
(***************************************************************************)
\* The key of a record or of submitted data.
Key(d) == <<d.ngo_id, d.month>>

\* The five columns that make a record, without its rowid.
Values(d) ==
    [ngo_id |-> d.ngo_id, month |-> d.month, people_helped |-> d.people_helped,
     events_conducted |-> d.events_conducted, funds_utilized |-> d.funds_utilized]

\* The records of a table, as a set.
RecordSet(rs) == {Values(rs[i]) : i \in DOMAIN rs}

\* Of a sequence of submitted data, the last one of each key.
LatestByKey(ds) ==
    {Values(ds[i]) : i \in {i \in DOMAIN ds :
                              \A k \in DOMAIN ds : k > i => Key(ds[k]) # Key(ds[i])}}

\* The data of the committed upserts of all callers, in commit order.
Applied == [i \in DOMAIN storeLog |-> storeLog[i].data]

\* No two rows of the reports table have the same (ngo_id, month).
UniqueKeys ==
    \A i, k \in DOMAIN reports : i # k => Key(reports[i]) # Key(reports[k])

\* This step commits an upsert whose key the table already holds.
UpsertOnExistingKey ==
    /\ Len(storeLog') = Len(storeLog) + 1
    /\ \E i \in DOMAIN reports : Key(reports[i]) = Key(storeLog'[Len(storeLog')].data)

\* The step's upsert changes the table in one row only: that row keeps its
\* rowid and key and takes the three submitted values.
ReplacesInPlace ==
    LET d == storeLog'[Len(storeLog')].data
    IN  /\ Len(reports') = Len(reports)
        /\ \A i \in DOMAIN reports :
              IF Key(reports[i]) = Key(d)
              THEN /\ reports'[i].id = reports[i].id
                   /\ Values(reports'[i]) = Values(d)
              ELSE reports'[i] = reports[i]

(***************************************************************************)
(* C11.  Whatever the interleaving of POST /report submissions and of the  *)
(* rows of two jobs running at once, the reports table never holds two     *)
(* rows with the same (ngo_id, month), and an upsert on a key the table    *)
(* holds replaces that row's three numeric values together and adds no     *)
(* row.                                                                    *)
(***************************************************************************)
C11_OneRecordPerKey ==
    /\ []UniqueKeys
    /\ [][UpsertOnExistingKey => ReplacesInPlace]_vars

\* A job and a POST /report have both written one key, the table holds one
\* row, and the other job is in the middle of its row loop.
C11_Witness ==
    /\ Len(reports) = 1
    /\ \E a, b \in DOMAIN storeLog :
          /\ a # b
          /\ storeLog[a].by = "report"
          /\ storeLog[b].by \in DOMAIN jobs
          /\ Key(storeLog[a].data) = Key(storeLog[b].data)
          /\ \E j \in DOMAIN jobs :
                /\ j # storeLog[b].by
                /\ loop[j].pc = "rows"
                /\ loop[j].processedRows = 1

(***************************************************************************)
(* C12.  Last write wins: the reports table holds, for every key ever      *)
(* committed, exactly the values of the latest committed upsert of that    *)
(* key, whether it came from POST /report or from a row of a job; upserts  *)
(* of other keys, invalid submissions and rejected upserts leave the       *)
(* record as it is.                                                        *)
(***************************************************************************)
C12_LastWriteWins == RecordSet(reports) = LatestByKey(Applied)

\* Two committed upserts of one key with different values, the second by
\* another caller, and a POST /report that was turned down as invalid.
C12_Witness ==
    /\ \E a, b \in DOMAIN storeLog :
          /\ a < b
          /\ storeLog[a].by # storeLog[b].by
          /\ Key(storeLog[a].data) = Key(storeLog[b].data)
          /\ Values(storeLog[a].data) # Values(storeLog[b].data)
    /\ \E r \in DOMAIN responses :
          responses[r].route = "report" /\ responses[r].status = 400

(***************************************************************************)
(* Notions of the runs that upload one file twice.                         *)
(***************************************************************************)
\* The job of the first upload and the job of the second.
FirstJob == responses[1].jobId

SecondJob == responses[2].jobId

\* Both uploads of the file have been made and both invocations have settled.
BothOver ==
    /\ Len(responses) = 2
    /\ Over(FirstJob)
    /\ Over(SecondJob)

\* The second job reports the counts of the first.
SameCounts ==
    /\ jobs[SecondJob].status = jobs[FirstJob].status
    /\ jobs[SecondJob].successful_rows = jobs[FirstJob].successful_rows
    /\ jobs[SecondJob].failed_rows = jobs[FirstJob].failed_rows

C14_CleanupExactlyOnce ==
    \A j \in DOMAIN jobs :
        /\ upload[j].cleanups = IF Over(j) THEN 1 ELSE 0
        /\ upload[j].exists = ~Over(j)

\* A header failure, after which the stream delivered another record and
\* its end.
C14_Witness ==
    \E j \in DOMAIN jobs :
        /\ promise[j].state = "rejected"
        /\ ~headersValidated[j]
        /\ parser[j].delivered >= 2
        /\ parser[j].state = "ended"
        /\ upload[j].cleanups = 1

(***************************************************************************)
(* C15.  The step that accepts an upload leaves the job row pending with   *)
(* every count 0 and no message, has answered 202 with the job's           *)
(* identifier, and has read, validated and stored nothing, its promise     *)
(* still pending; and every step in which the pipeline reads a record,     *)
(* buffers a row or calls the Record Store starts with that answer sent.   *)
(***************************************************************************)
PendingRow ==
    [status |-> "pending", total_rows |-> 0, processed_rows |-> 0,
     successful_rows |-> 0, failed_rows |-> 0, errors |-> <<>>]

\* POST /reports/upload has answered with job j's identifier.
Answered(j) == \E r \in DOMAIN responses : responses[r] = UploadAccepted(j)

C15_EnqueueOrdering ==
    [][/\ \A j \in DOMAIN jobs' \ DOMAIN jobs :
             /\ jobs'[j] = PendingRow
             /\ \E r \in DOMAIN responses' : responses'[r] = UploadAccepted(j)
             /\ parser'[j].delivered = 0
             /\ results'[j] = <<>>
             /\ storeCalls'[j] = <<>>
             /\ jobWrites'[j] = <<>>
             /\ promise'[j].state = "pending"
       /\ \A j \in DOMAIN jobs :
             (parser'[j] # parser[j] \/ results'[j] # results[j]
                \/ storeCalls'[j] # storeCalls[j])
               => /\ Answered(j)
                  /\ (parser[j].delivered = 0 /\ parser[j].state = "flowing")
                       => jobs[j] = PendingRow]_vars

\* An answered upload whose rows were read and stored afterwards.
C15_Witness ==
    \E j \in DOMAIN jobs :
        /\ Answered(j)
        /\ Len(storeCalls[j]) >= 2
        /\ jobs[j].status = "completed"

(***************************************************************************)
(* C16.  Pass 1 buffers the stream's records in stream order with          *)
(* rowIndex 1..N, and the row loop takes them in that order one per step:  *)
(* the step that handles row k starts with rows 1..k-1 handled and their   *)
(* progress persisted, calls the Record Store at most once, for row k,     *)
(* and persists processed_rows = k before it ends.                         *)
(***************************************************************************)
\* The rows of job j the loop has dealt with: those it called the store
\* for and those whose validation messages it collected.
HandledRows(j) ==
    {storeCalls[j][i].rowIndex : i \in DOMAIN storeCalls[j]}
    \cup {errors[j][i].row : i \in DOMAIN errors[j]}

InSourceOrder ==
    \A j \in DOMAIN jobs :
        /\ rowIndex[j] = Len(results[j])
        /\ \A k \in DOMAIN results[j] :
              /\ results[j][k].rowIndex = k
              /\ results[j][k].row = csv[j].records[k]
        /\ \A a, b \in DOMAIN storeCalls[j] :
              a < b => storeCalls[j][a].rowIndex < storeCalls[j][b].rowIndex
        /\ HandledRows(j) = 1..loop[j].processedRows
        /\ jobs[j].processed_rows = loop[j].processedRows

OneRowPerStep ==
    \A j \in DOMAIN jobs :
        loop'[j].processedRows # loop[j].processedRows
          => LET k == loop[j].processedRows + 1
             IN  /\ loop'[j].processedRows = k
                 /\ jobs[j].processed_rows = k - 1
                 /\ jobs'[j].processed_rows = k
                 /\ \/ /\ storeCalls'[j] = storeCalls[j]
                       /\ Len(errors'[j]) > Len(errors[j])
                       /\ \A i \in DOMAIN errors'[j] :
                             i > Len(errors[j]) => errors'[j][i].row = k
                    \/ /\ Len(storeCalls'[j]) = Len(storeCalls[j]) + 1
                       /\ storeCalls'[j][Len(storeCalls'[j])].rowIndex = k
                       /\ storeCalls'[j][Len(storeCalls'[j])].data
                            = validateRow(csv[j].records[k], k).data

C16_RowsInOrder == []InSourceOrder /\ [][OneRowPerStep]_vars

\* A finished job of three rows: a stored one, an invalid one, a stored one.
C16_Witness ==
    \E j \in DOMAIN jobs :
        /\ loop[j].processedRows = 3
        /\ Len(storeCalls[j]) = 2
        /\ storeCalls[j][1].rowIndex = 1
        /\ storeCalls[j][2].rowIndex = 3
        /\ \E i \in DOMAIN errors[j] : errors[j][i].row = 2

(***************************************************************************)
(* C17.  No step lowers a job's persisted total_rows, processed_rows,      *)
(* successful_rows or failed_rows, and every step that rewrites a job in   *)
(* status processing (a progress write of the row loop) raises its         *)
(* processed_rows by exactly 1.                                            *)
(***************************************************************************)
CountersNeverDrop ==
    \A j \in DOMAIN jobs :
        /\ jobs'[j].total_rows >= jobs[j].total_rows
        /\ jobs'[j].processed_rows >= jobs[j].processed_rows
        /\ jobs'[j].successful_rows >= jobs[j].successful_rows
        /\ jobs'[j].failed_rows >= jobs[j].failed_rows

ProgressByOne ==
    \A j \in DOMAIN jobs :
        (jobs[j].status = "processing" /\ Len(jobWrites'[j]) # Len(jobWrites[j]))
          => /\ Len(jobWrites'[j]) = Len(jobWrites[j]) + 1
             /\ jobs'[j].processed_rows = jobs[j].processed_rows + 1
             /\ jobs'[j].total_rows = jobs[j].total_rows
             /\ jobs'[j].successful_rows + jobs'[j].failed_rows
                  = jobs[j].successful_rows + jobs[j].failed_rows + 1

C17_MonotoneCounters == [][CountersNeverDrop /\ ProgressByOne]_vars

\* A job written four times: the start of the loop, then three rows of
\* which one failed and two were stored.
C17_Witness ==
    \E j \in DOMAIN jobs :
        /\ Len(jobWrites[j]) = 4
        /\ jobs[j].processed_rows = 3
        /\ jobs[j].failed_rows = 1
        /\ jobs[j].successful_rows = 2

(***************************************************************************)
(* C18.  Every persisted job state has processed_rows <= total_rows; a     *)
(* row's progress write carries completed when processed_rows =            *)
(* total_rows and processing otherwise; so processing means                *)
(* processed_rows < total_rows and completed means                         *)
(* processed_rows = total_rows >= 1.                                       *)
(***************************************************************************)
\* The rule for one persisted state.
StatusMatchesCounts(w) ==
    /\ w.processed_rows <= w.total_rows
    /\ w.status = "processing" => w.processed_rows < w.total_rows
    /\ w.status = "completed" => w.processed_rows = w.total_rows /\ w.total_rows >= 1

C18_StatusMatchesCounts ==
    \A j \in DOMAIN jobs :
        /\ StatusMatchesCounts(jobs[j])
        /\ \A i \in DOMAIN jobWrites[j] :
              /\ StatusMatchesCounts(jobWrites[j][i])
              /\ i >= 2 =>
                   /\ jobWrites[j][i].status \in {"processing", "completed"}
                   /\ jobWrites[j][i].status = "completed"
                        <=> jobWrites[j][i].processed_rows = jobWrites[j][i].total_rows

\* A completed job whose earlier row snapshots said processing.
C18_Witness ==
    \E j \in DOMAIN jobs :
        /\ jobs[j].status = "completed"
        /\ jobs[j].total_rows = 3
        /\ jobWrites[j][2].status = "processing"
        /\ jobWrites[j][3].status = "processing"
        /\ jobWrites[j][4].status = "completed"

(***************************************************************************)
(* C19.  From one write of a job in status processing to the next, the     *)
(* persisted error list only grows at its end; and in every persisted      *)
(* list of the row loop the messages come in row order, those of one row   *)
(* in the order ngo_id, month, people_helped, events_conducted,            *)
(* funds_utilized.                                                         *)
(***************************************************************************)
IsPrefix(s, t) == Len(s) <= Len(t) /\ \A i \in DOMAIN s : s[i] = t[i]

\* The field a row message is about, by its position in the validator; a
\* store error is its row's only message.
FieldRank(m) ==
    CASE m.text = "NGO ID is required" -> 1
      [] m.text \in {"Month is required", "Month must be in YYYY-MM format"} -> 2
      [] m.text = "People Helped must be a non-negative number" -> 3
      [] m.text = "Events Conducted must be a non-negative number" -> 4
      [] m.text = "Funds Utilized must be a non-negative number" -> 5
      [] OTHER -> 6

RowThenFieldOrder(errs) ==
    \A a, b \in DOMAIN errs :
        a < b => \/ errs[a].row < errs[b].row
                 \/ errs[a].row = errs[b].row /\ FieldRank(errs[a]) < FieldRank(errs[b])

C19_ErrorsAppendOnly ==
    \A j \in DOMAIN jobs :
        /\ \A i \in DOMAIN jobWrites[j] :
              /\ (jobWrites[j][i].status = "processing" /\ i < Len(jobWrites[j]))
                   => IsPrefix(jobWrites[j][i].errors, jobWrites[j][i + 1].errors)
              /\ jobWrites[j][i].status \in {"processing", "completed"}
                   => RowThenFieldOrder(jobWrites[j][i].errors)
        /\ jobs[j].status \in {"processing", "completed"}
             => /\ jobs[j].errors = errors[j]
                /\ RowThenFieldOrder(jobs[j].errors)

\* A completed job with the five messages of row 1, then a store error for
\* row 2, then a message of row 3.
C19_Witness ==
    \E j \in DOMAIN jobs :
        /\ jobs[j].status = "completed"
        /\ Len(jobs[j].errors) = 7
        /\ jobs[j].errors[5].row = 1
        /\ jobs[j].errors[6].text = "Database error"
        /\ jobs[j].errors[7].row = 3

(***************************************************************************)
(* C20.  As claimed: however an invocation of processCSVFile ends (rows    *)
(* processed, header failure, empty file, parse error, or a store call     *)
(* that throws), its promise is settled and the job's persisted status is  *)
(* terminal from then on.  The Job Store's write throwing inside the       *)
(* 'end' handler ends the invocation with the promise pending and the job  *)
(* pending or processing.                                                  *)
(***************************************************************************)
\* No callback of job j's invocation will do anything more: the 'end'
\* handler has returned or thrown, or the invocation was aborted.
InvocationEnded(j) ==
    loop[j].pc \in {"returned", "thrown"} \/ processingAborted[j]

C20_AsClaimed ==
    \A j \in DOMAIN jobs :
        /\ InvocationEnded(j) => Over(j)
        /\ Over(j) => jobs[j].status \in Terminal

AnswerFor(calls, index) ==
    IF \E i \in DOMAIN calls : calls[i].rowIndex = index
    THEN calls[CHOOSE i \in DOMAIN calls : calls[i].rowIndex = index].answer
    ELSE "none"

\* The messages of the first n rows of the file, row by row, given the
\* store's answers.
RECURSIVE MessagesUpTo(_, _, _)
MessagesUpTo(file, calls, n) ==
    IF n = 0 THEN <<>>
    ELSE MessagesUpTo(file, calls, n - 1)
         \o RowMessages(validateRow(file.records[n], n), n, AnswerFor(calls, n))

\* The job row processCSVFile leaves when it runs alone on the file and the
\* store answers its rows as in calls.
AloneOutcome(file, calls) ==
    LET n  == Len(file.records)
        ok == Cardinality({i \in 1..n : AnswerFor(calls, i) = "ok"})
        Failed(message) ==
            [status |-> "failed", total_rows |-> 0, processed_rows |-> 0,
             successful_rows |-> 0, failed_rows |-> 0, errors |-> <<message>>]
    IN  IF n > 0 /\ ~validateHeaders(ObjectKeys(file.records[1])).isValid
        THEN Failed(validateHeaders(ObjectKeys(file.records[1])).error)
        ELSE IF file.fault THEN Failed(ParseErrorMessage)
        ELSE IF n = 0 THEN Failed(EmptyFileMessage)
        ELSE [status |-> "completed", total_rows |-> n, processed_rows |-> n,
              successful_rows |-> ok, failed_rows |-> n - ok,
              errors |-> MessagesUpTo(file, calls, n)]

\* The job row of every finished job is the one of a run alone.
FinishedAsAlone ==
    \A j \in DOMAIN jobs : Over(j) => jobs[j] = AloneOutcome(csv[j], storeCalls[j])

\* A step writes the job rows of at most one invocation, and a row that
\* changes is the row of the invocation that wrote.
WritesOwnRow ==
    /\ \A j, k \in DOMAIN jobs :
          (jobWrites'[j] # jobWrites[j] /\ jobWrites'[k] # jobWrites[k]) => j = k
    /\ \A k \in DOMAIN jobs :
          jobs'[k] # jobs[k] => Len(jobWrites'[k]) = Len(jobWrites[k]) + 1

\* The store calls of the two jobs alternate: between two upserts of one
\* job there is one of the other.
Interleaved ==
    \E a, b, c \in DOMAIN storeLog :
        /\ a < b /\ b < c
        /\ storeLog[a].by = storeLog[c].by
        /\ storeLog[b].by # storeLog[a].by
        /\ storeLog[b].by \in DOMAIN jobs
        /\ storeLog[a].by \in DOMAIN jobs

(***************************************************************************)
(* C22.  Job isolation: with two jobs at once, their row loops             *)
(* interleaving, every job-store write of an invocation changes the row of *)
(* its own job only, and the counters, status and error list of every      *)
(* finished job are those of a run alone on its file (with the answers the *)
(* Record Store gave to its rows).                                         *)
(***************************************************************************)
C22_JobIsolation == []FinishedAsAlone /\ [][WritesOwnRow]_vars

\* Two files handled in turns, both invocations over, one job completed with
\* a failed row and the other with none.
C22_Witness ==
    /\ Interleaved
    /\ \A j \in TwoJobIds : j \in DOMAIN jobs /\ Over(j) /\ jobs[j].status = "completed"
    /\ \E j, k \in TwoJobIds : jobs[j].failed_rows = 1 /\ jobs[k].failed_rows = 0


(***************************************************************************)
(* Notions of the validators' results.                                     *)
(***************************************************************************)
\* The texts of the messages about a field (without the row prefix).
FieldTexts(name) ==
    IF name = ngo_id THEN {"NGO ID is required"}
    ELSE IF name = month
    THEN {"Month is required", "Month must be in YYYY-MM format",
          "Month must be in YYYY-MM format (e.g., 2024-01)"}
    ELSE IF name = people_helped THEN {"People Helped must be a non-negative number"}
    ELSE IF name = events_conducted
    THEN {"Events Conducted must be a non-negative number"}
    ELSE {"Funds Utilized must be a non-negative number"}

\* The fields the messages of a validation flag.
Flagged(validation) ==
    {name \in Range(REQUIRED_HEADERS) :
        \E i \in DOMAIN validation.errors : validation.errors[i].text \in FieldTexts(name)}

\* The functions of these names have been called.
Called(names) == names \subseteq DOMAIN ret

(***************************************************************************)
(* C23.  On every field map validateReport and validateRow agree: one      *)
(* accepts it exactly when the other does, both produce the same           *)
(* normalized record, and both flag the same set of fields.                *)
(***************************************************************************)
C23_SameValidator ==
    Called({"validateRow", "validateReport"}) =>
        /\ ret["validateReport"].isValid = ret["validateRow"].isValid
        /\ ret["validateReport"].data = ret["validateRow"].data
        /\ Flagged(ret["validateReport"]) = Flagged(ret["validateRow"])

\* Both validators called on a field map with a malformed month and another
\* bad field: the two lists of messages differ in their wording only.
C23_Witness ==
    /\ Called({"validateRow", "validateReport"})
    /\ month \in Flagged(ret["validateRow"])
    /\ Cardinality(Flagged(ret["validateRow"])) >= 2
    /\ Len(ret["validateReport"].errors) = Len(ret["validateRow"].errors)
    /\ \E i \in DOMAIN ret["validateReport"].errors :
          ret["validateReport"].errors[i].text # ret["validateRow"].errors[i].text


(***************************************************************************)
(* Notions of the field rules.                                             *)
(***************************************************************************)
\* The record breaks the rule of this field.
Violates(row, name) ==
    IF name \in {ngo_id, month}
    THEN \/ Falsy(Get(row, name))
         \/ trim(String(Get(row, name))) = <<>>
         \/ name = month /\ ~IsYearMonth(trim(String(Get(row, name))))
    ELSE IF name = funds_utilized
    THEN isNaN(parseFloat(Get(row, name))) \/ Negative(parseFloat(Get(row, name)))
    ELSE isNaN(parseInt(Get(row, name))) \/ Negative(parseInt(Get(row, name)))

ViolatedFields(row) == {name \in Range(REQUIRED_HEADERS) : Violates(row, name)}

\* This step is POST /report answering a request.
ReportAnswered ==
    /\ Len(responses') = Len(responses) + 1
    /\ responses'[Len(responses')].route = "report"

\* The answer of that step.
ReportAnswer == responses'[Len(responses')]

\* The step answers 400 with one message per field the body violates and
\* leaves the reports table as it is.
RefusedWithMessages(body) ==
    /\ ViolatedFields(body) # {}
    /\ ReportAnswer.status = 400
    /\ Len(ReportAnswer.body) = Cardinality(ViolatedFields(body))
    /\ \A name \in ViolatedFields(body) :
          \E i \in DOMAIN ReportAnswer.body : ReportAnswer.body[i].text \in FieldTexts(name)
    /\ reports' = reports
    /\ storeLog' = storeLog

\* The step makes the one upsert of the body's record: committed and
\* answered 201, or thrown by the Record Store and answered 500.
UpsertedOnce(body) ==
    /\ ViolatedFields(body) = {}
    /\ \/ /\ ReportAnswer.status = 201
          /\ Len(storeLog') = Len(storeLog) + 1
          /\ storeLog'[Len(storeLog')].by = "report"
          /\ Key(storeLog'[Len(storeLog')].data) =
                <<trim(String(Get(body, ngo_id))), trim(String(Get(body, month)))>>
          /\ \E i \in DOMAIN reports' : /\ Key(reports'[i]) = Key(storeLog'[Len(storeLog')].data)
                                        /\ Values(reports'[i]) =
                                              Values(storeLog'[Len(storeLog')].data)
          /\ \A i \in DOMAIN reports :
                Key(reports[i]) # Key(storeLog'[Len(storeLog')].data) =>
                    reports'[i] = reports[i]
       \/ /\ ReportAnswer.status = 500
          /\ reports' = reports
          /\ storeLog' = storeLog

(***************************************************************************)
(* C24.  Every POST /report either refuses a body that fails validation    *)
(* with status 400 and the whole list of messages, one per violated field, *)
(* leaving the Record Store unchanged, or makes exactly one upsert of a    *)
(* body that passes.                                                       *)
(***************************************************************************)
C24_ReportAnswers ==
    [][ReportAnswered =>
          \E body \in ReportBodies : RefusedWithMessages(body) \/ UpsertedOnce(body)]_vars

\* A body with five bad fields refused with five messages while the reports
\* table holds a record of a job.
C24_Witness ==
    /\ reports # <<>>
    /\ \A i \in DOMAIN storeLog : storeLog[i].by # "report"
    /\ \E r \in DOMAIN responses :
          /\ responses[r].route = "report"
          /\ responses[r].status = 400
          /\ Len(responses[r].body) = 5


(***************************************************************************)
(* Notions of the header check.                                            *)
(***************************************************************************)
\* The required names among the column names, each lower-cased and trimmed.
PresentNames(headers) ==
    {r \in Range(REQUIRED_HEADERS) :
        \E i \in DOMAIN headers : trim(toLowerCase(headers[i])) = r}

\* The required names that are not among them, in the order of the required
\* set.
AbsentNames(headers) ==
    LET Absent(r) == r \notin PresentNames(headers)
    IN  SelectSeq(REQUIRED_HEADERS, Absent)

(***************************************************************************)
(* C25.  validateHeaders passes exactly when each of the five required     *)
(* names is among the column names after lower-casing and trimming; the    *)
(* order of the columns and columns of other names do not matter; when it  *)
(* fails, its one message lists all the missing names in the order of the  *)
(* required set.                                                           *)
(***************************************************************************)
C25_HeaderCheck ==
    Called({"validateHeaders"}) =>
        LET result == ret["validateHeaders"]
        IN  /\ result.isValid <=> PresentNames(arg.headers) = Range(REQUIRED_HEADERS)
            /\ ~result.isValid =>
                  /\ result.error.text = "Missing required columns"
                  /\ result.error.detail = AbsentNames(arg.headers)
            /\ result = validateHeaders(Reverse(arg.headers))
            /\ result = validateHeaders(<<<<"e", "x", "t", "r", "a">>>> \o arg.headers)

\* A header line in reverse order with a column of another name and upper
\* case spellings, missing two required names that are not neighbours.
C25_Witness ==
    /\ Called({"validateHeaders"})
    /\ ret["validateHeaders"].error.detail = <<month, funds_utilized>>
    /\ arg.headers[Len(arg.headers)] = <<"n", "o", "t", "e", "s">>
    /\ arg.headers[1] # events_conducted
    /\ PresentNames(arg.headers) = {ngo_id, people_helped, events_conducted}


\* The text is a decimal number and nothing else: an optional sign, digits,
\* and an optional fraction.
IsNumberText(s) ==
    LET body == IF s # <<>> /\ Head(s) \in {"-", "+"} THEN Tail(s) ELSE s
        ip   == DigitPrefix(body)
        rest == SubSeq(body, Len(ip) + 1, Len(body))
        fp   == IF rest # <<>> /\ Head(rest) = "." THEN DigitPrefix(Tail(rest)) ELSE <<>>
    IN  /\ ip \o fp # <<>>
        /\ \/ rest = <<>>
           \/ Head(rest) = "." /\ Len(rest) = 1 + Len(fp)

\* The five rules as the specification words them: ngo_id not empty after
\* trimming, month of the shape dddd-dd after trimming, and each numeric
\* field a number that is not negative.
RuleHolds(row, name) ==
    IF name = ngo_id THEN ~Falsy(Get(row, name)) /\ trim(String(Get(row, name))) # <<>>
    ELSE IF name = month
    THEN ~Falsy(Get(row, name)) /\ IsYearMonth(trim(String(Get(row, name))))
    ELSE /\ IsNumberText(trim(String(Get(row, name))))
         /\ ~Negative(parseFloat(Get(row, name)))

\* C26 as claimed: validateRow judges a row valid exactly when all five rules
\* hold, so that any value of a numeric field that is not a number, or is
\* negative, makes the row invalid.
C26_AsClaimed ==
    Called({"validateRow"}) =>
        (ret["validateRow"].isValid <=>
            \A name \in Range(REQUIRED_HEADERS) : RuleHolds(arg.row, name))


(***************************************************************************)
(* C27.  validateRow tests the five fields independently of each other and *)
(* collects every message: a row that breaks the rules of k fields gets    *)
(* exactly k messages, one about each of those fields, every one carrying  *)
(* the row's index, and the row is valid exactly when k = 0.  (A field     *)
(* breaks its rule when validateRow's test of that field alone fails.)     *)
(***************************************************************************)
C27_AllErrorsCollected ==
    Called({"validateRow"}) =>
        LET validation == ret["validateRow"]
            k          == Cardinality(ViolatedFields(arg.row))
        IN  /\ Len(validation.errors) = k
            /\ Flagged(validation) = ViolatedFields(arg.row)
            /\ \A i \in DOMAIN validation.errors : validation.errors[i].row = arg.rowIndex
            /\ validation.isValid <=> k = 0

\* The third row of a file, all of its five fields bad: five messages.
C27_Witness ==
    /\ Called({"validateRow"})
    /\ arg.rowIndex = 3
    /\ Cardinality(ViolatedFields(arg.row)) = 5
    /\ Len(ret["validateRow"].errors) = 5


(***************************************************************************)
(* Notions of the dashboard's answers.                                     *)
(***************************************************************************)
\* GET /dashboard has answered the query with status 200.
Served == Called({"dashboard"}) /\ ret["dashboard"].status = 200

(***************************************************************************)
(* C28.  Whatever the raw offset and limit of a dashboard request are, the *)
(* offset it uses is >= 0 and the limit it uses is in 1..100; an absent    *)
(* offset is 0 and an absent limit is 20; an offset that is a whole number *)
(* >= 0 and a limit that is a whole number in 1..100 are used unchanged.   *)
(***************************************************************************)
C28_PaginationClamped ==
    Served =>
        LET used == ret["dashboard"].pagination
            raw  == arg.query
        IN  /\ used.offset >= 0
            /\ used.limit \in 1..100
            /\ raw.offset = Undefined => used.offset = 0
            /\ raw.limit = Undefined => used.limit = 20
            /\ IsCount(raw.offset) => used.offset = DigitsValue(raw.offset)
            /\ (IsCount(raw.limit) /\ DigitsValue(raw.limit) \in 1..100)
                  => used.limit = DigitsValue(raw.limit)

\* A request with offset=-3 and limit=150 served with offset 0 and limit 100.
C28_Witness ==
    /\ Served
    /\ arg.query.offset = <<"-", "3">>
    /\ arg.query.limit = <<"1", "5", "0">>
    /\ ret["dashboard"].pagination.offset = 0
    /\ ret["dashboard"].pagination.limit = 100


\* The filters the answer names, null being no filter.
AnsweredFilters ==
    LET NoNull(x) == IF x = <<"null">> THEN Undefined ELSE x
        f         == ret["dashboard"].filters
    IN  [monthFrom |-> NoNull(f.monthFrom), monthTo |-> NoNull(f.monthTo),
         ngoId |-> NoNull(f.ngoId)]

\* The filtered set: the rows of the reports table the filters keep.
FilteredSet == {i \in DOMAIN reports : Matches(reports[i], AnsweredFilters)}

Least(a, b) == IF a < b THEN a ELSE b

(***************************************************************************)
(* C29.  With T the number of records of the filtered set, the page of a   *)
(* dashboard answer holds min(limit, max(0, T - offset)) records,          *)
(* totalRecords is T, and hasMore is true exactly when offset plus the     *)
(* number of records of the page is less than T.                           *)
(***************************************************************************)
C29_PageAndHasMore ==
    Served =>
        LET answer == ret["dashboard"]
            T      == Cardinality(FilteredSet)
            offset == answer.pagination.offset
            limit  == answer.pagination.limit
        IN  /\ Len(answer.reports) = Least(limit, IF T - offset > 0 THEN T - offset ELSE 0)
            /\ answer.pagination.totalRecords = T
            /\ answer.pagination.hasMore <=> offset + Len(answer.reports) < T
            /\ \A i \in DOMAIN answer.reports :
                  \E k \in FilteredSet : reports[k] = answer.reports[i]

\* The last page of a filtered set of three records read two by two: one
\* record, and no more.
C29_Witness ==
    /\ Served
    /\ Cardinality(FilteredSet) = 3
    /\ ret["dashboard"].pagination.limit = 2
    /\ ret["dashboard"].pagination.offset = 2
    /\ Len(ret["dashboard"].reports) = 1
    /\ ~ret["dashboard"].pagination.hasMore


RECURSIVE Total(_, _)
\* The sum of a column over the rows of the reports table at these
\* positions: 0 over none.
Total(positions, column) ==
    IF positions = {} THEN Number(0, 0)
    ELSE LET i == CHOOSE k \in positions : TRUE
         IN  Plus(reports[i][column], Total(positions \ {i}, column))

(***************************************************************************)
(* C30.  The summary of a dashboard answer is computed over the whole      *)
(* filtered set, whatever the offset and the limit: totalNgosReporting is  *)
(* the number of distinct ngo_id values of the set and the three totals    *)
(* are the sums of people_helped, events_conducted and funds_utilized over *)
(* the set, all four 0 for an empty set.                                   *)
(***************************************************************************)
C30_SummaryOverFilteredSet ==
    Served =>
        LET summary == ret["dashboard"].summary
        IN  /\ summary.totalNgosReporting =
                  Number(Cardinality({reports[i].ngo_id : i \in FilteredSet}), 0)
            /\ summary.totalPeopleHelped = Total(FilteredSet, "people_helped")
            /\ summary.totalEventsConducted = Total(FilteredSet, "events_conducted")
            /\ summary.totalFundsUtilized = Total(FilteredSet, "funds_utilized")

\* The rows NGO001,2024-01,150,5,50000 and NGO002,2024-01,10,1,0.25 stored,
\* and with them a record of another month: the query for 2024-01 with
\* offset 1 and limit 1 returns one record, 2 NGOs and the sums of both rows.
C30_Witness ==
    /\ Served
    /\ Len(reports) = 3
    /\ arg.query.month = Month01
    /\ arg.query.ngo_id = Undefined
    /\ {reports[i].ngo_id : i \in FilteredSet} =
          {<<"N", "G", "O", "0", "0", "1">>, <<"N", "G", "O", "0", "0", "2">>}
    /\ Len(ret["dashboard"].reports) = 1
    /\ ret["dashboard"].summary =
          [totalNgosReporting |-> Number(2, 0), totalPeopleHelped |-> Number(160, 0),
           totalEventsConducted |-> Number(6, 0), totalFundsUtilized |-> Number(5000025, 2)]


\* The record's month lies between the bounds the answer names, under the
\* ordering of texts, a bound that is null being no bound.
InPeriod(r) ==
    /\ AnsweredFilters.monthFrom = Undefined \/ TextLeq(AnsweredFilters.monthFrom, r.month)
    /\ AnsweredFilters.monthTo = Undefined \/ TextLeq(r.month, AnsweredFilters.monthTo)

\* The records of the table in the period (and with the ngo_id asked for).
PeriodSet ==
    {i \in DOMAIN reports :
        /\ InPeriod(reports[i])
        /\ AnsweredFilters.ngoId = Undefined \/ Like(reports[i].ngo_id, AnsweredFilters.ngoId)}

(***************************************************************************)
(* C31.  The filtered set of a dashboard answer is exactly the records     *)
(* with from <= month <= to as texts, both bounds included and an absent   *)
(* bound being no bound; and the request with the single parameter month   *)
(* = m gets the answer (summary, page, pagination) of the request with     *)
(* month_from = m and month_to = m.                                        *)
(***************************************************************************)
C31_PeriodFilter ==
    /\ Served =>
          /\ ret["dashboard"].pagination.totalRecords = Cardinality(PeriodSet)
          /\ ret["dashboard"].summary.totalNgosReporting =
                Number(Cardinality({reports[i].ngo_id : i \in PeriodSet}), 0)
          /\ \A k \in DOMAIN ret["dashboard"].reports :
                \E i \in PeriodSet : reports[i] = ret["dashboard"].reports[k]
    /\ (Called({"dashboard", "dashboardRange"}) /\ ~Falsy(arg.query.month)) =>
          /\ ret["dashboard"].status = ret["dashboardRange"].status
          /\ ret["dashboard"].status = 200 =>
                /\ ret["dashboard"].summary = ret["dashboardRange"].summary
                /\ ret["dashboard"].reports = ret["dashboardRange"].reports
                /\ ret["dashboard"].pagination = ret["dashboardRange"].pagination

\* month = 2024-01 asked of a table with records of that month and of a
\* later one, and the same asked as a range: both answers hold the records
\* of 2024-01 only.
C31_Witness ==
    /\ Called({"dashboard", "dashboardRange"})
    /\ Served
    /\ arg.query.month = Month01
    /\ arg.query.ngo_id = Undefined
    /\ Cardinality(PeriodSet) = 2
    /\ Len(reports) = 3
    /\ \E i \in DOMAIN reports : TextLess(Month01, reports[i].month)
    /\ ret["dashboardRange"].pagination.totalRecords = 2


\* The text part occurs in x, character for character.
Contains(x, part) ==
    \E i \in 0..(Len(x) - Len(part)) : SubSeq(x, i + 1, i + Len(part)) = part

\* The records in the period whose stored ngo_id contains the filter text.
ContainingSet ==
    {i \in DOMAIN reports :
        /\ InPeriod(reports[i])
        /\ AnsweredFilters.ngoId = Undefined
              \/ Contains(reports[i].ngo_id, AnsweredFilters.ngoId)}

\* C32 as claimed: the ngo_id filter selects exactly the records whose stored
\* ngo_id contains the trimmed filter text, compared case-sensitively and
\* with no wildcard.
C32_AsClaimed ==
    Served =>
        /\ ret["dashboard"].pagination.totalRecords = Cardinality(ContainingSet)
        /\ \A k \in DOMAIN ret["dashboard"].reports :
              \E i \in ContainingSet : reports[i] = ret["dashboard"].reports[k]


\* This step takes job j from pending to processing.
StartsProcessing(j) ==
    /\ j \in DOMAIN jobs
    /\ jobs[j].status = "pending"
    /\ jobs'[j].status = "processing"

\* The step comes with the end of a stream that was read whole and not
\* aborted, that delivered at least one record, and none of whose rows has
\* been validated or given to the Record Store.
AfterPassOne(j) ==
    /\ parser[j].state # "ended" /\ parser'[j].state = "ended"
    /\ ~processingAborted[j]
    /\ parser[j].delivered = Len(csv[j].records)
    /\ Len(results[j]) >= 1
    /\ storeCalls[j] = <<>> /\ storeCalls'[j] = <<>>
    /\ errors'[j] = <<>>
    /\ loop[j].pc = "pass1" /\ loop'[j].pc = "rows" /\ loop'[j].processedRows = 0
    /\ \A i \in DOMAIN storeLog' : storeLog'[i].by # j

\* What the step writes: total_rows the number of buffered records, the
\* other counters 0, no message.
WritesTotalOnly(j) ==
    jobs'[j] = [status |-> "processing", total_rows |-> Len(results[j]),
                processed_rows |-> 0, successful_rows |-> 0, failed_rows |-> 0,
                errors |-> <<>>]

\* total_rows of a job that is processing or completed stays.
TotalStays ==
    \A j \in DOMAIN jobs :
        jobs[j].status \in {"processing", "completed"} =>
            jobs'[j].total_rows = jobs[j].total_rows

(***************************************************************************)
(* C33.  The write that takes a job from pending to processing comes only  *)
(* when the whole stream has been read without abort and with at least one *)
(* record, before any row is validated or upserted; it sets total_rows to  *)
(* the number of buffered records, the three other counters to 0 and the   *)
(* error list to empty; total_rows never changes afterwards.               *)
(***************************************************************************)
C33_ProcessingStart ==
    [][/\ \A j \in JobIds : StartsProcessing(j) => AfterPassOne(j) /\ WritesTotalOnly(j)
       /\ TotalStays]_vars

\* A job just taken to processing with three buffered records, no row
\* handled yet.
C33_Witness ==
    \E j \in DOMAIN jobs :
        /\ jobs[j].status = "processing"
        /\ jobs[j].total_rows = 3
        /\ jobs[j].processed_rows = 0
        /\ loop[j].pc = "rows"
        /\ Len(jobWrites[j]) = 1


\* The stored data d is the record raw as it stands: raw breaks no rule, and
\* each field of d is raw's own value (trimmed, parsed), no field a default.
StoredAsGiven(raw, d) ==
    /\ d.ngo_id # <<>>
    /\ \A x \in {d.people_helped, d.events_conducted, d.funds_utilized} :
          ~isNaN(x) /\ ~Negative(x)
    /\ IsYearMonth(d.month)
    /\ d.ngo_id = trim(String(Get(raw, ngo_id)))
    /\ d.month = trim(String(Get(raw, month)))
    /\ d.people_helped = parseInt(Get(raw, people_helped))
    /\ d.events_conducted = parseInt(Get(raw, events_conducted))
    /\ d.funds_utilized = parseFloat(Get(raw, funds_utilized))
    /\ ViolatedFields(raw) = {}

\* The upsert at this position of the store's log was given the data of a
\* row of its job's file, or of a request body, that passed validation.
FromValidInput(i) ==
    LET by == storeLog[i].by
        d  == storeLog[i].data
    IN  IF by = "report"
        THEN \E body \in ReportBodies : StoredAsGiven(body, d)
        ELSE \E c \in DOMAIN storeCalls[by] :
                /\ storeCalls[by][c].answer = "ok"
                /\ storeCalls[by][c].data = d
                /\ StoredAsGiven(csv[by].records[storeCalls[by][c].rowIndex], d)

SummaryIsPersisted(j) ==
    LET v    == promise[j].value
        last == jobWrites[j][Len(jobWrites[j])]
    IN  /\ jobWrites[j] # <<>>
        /\ \A w \in {last, jobs[j]} :
              /\ v.totalRows = w.total_rows
              /\ v.successfulRows = w.successful_rows
              /\ v.failedRows = w.failed_rows
              /\ v.errors = w.errors
        /\ jobs[j].status \in {"completed", "failed"}
        /\ jobs[j].status = "failed" <=> Len(results[j]) = 0

(***************************************************************************)
(* C35.  The summary processCSVFile resolves with equals the job's final   *)
(* persisted state: its totalRows, successfulRows, failedRows and errors   *)
(* are the total_rows, successful_rows, failed_rows and error list last    *)
(* written to the jobs table, for a completed job and for the empty file.  *)
(***************************************************************************)
C35_SummaryIsFinalState ==
    \A j \in DOMAIN jobs : promise[j].state = "resolved" => SummaryIsPersisted(j)

\* A job resolved as completed with a stored row and a failed row.
C35_Witness ==
    \E j \in DOMAIN jobs :
        /\ promise[j].state = "resolved"
        /\ jobs[j].status = "completed"
        /\ promise[j].value.successfulRows > 0
        /\ promise[j].value.failedRows > 0
        /\ promise[j].value.errors # <<>>

\* A job resolved with the summary of the empty file.
EmptyFileResolved ==
    \E j \in DOMAIN jobs :
        /\ promise[j].state = "resolved"
        /\ jobs[j].status = "failed"
        /\ promise[j].value = Summary(0, 0, 0, <<EmptyFileMessage>>)


\* The four counters of a row of the jobs table are 0.
CountersZero(job) ==
    /\ job.total_rows = 0
    /\ job.processed_rows = 0
    /\ job.successful_rows = 0
    /\ job.failed_rows = 0

(***************************************************************************)
(* C36.  A job whose persisted status is pending has its four counters at  *)
(* 0 and an empty error list; a job whose persisted status is failed has   *)
(* total_rows, processed_rows, successful_rows and failed_rows at 0 and an *)
(* error list of exactly one message.                                      *)
(***************************************************************************)
C36_ShapeOfIdleStates ==
    \A j \in DOMAIN jobs :
        /\ jobs[j].status = "pending" => CountersZero(jobs[j]) /\ jobs[j].errors = <<>>
        /\ jobs[j].status = "failed" => CountersZero(jobs[j]) /\ Len(jobs[j].errors) = 1

\* A job failed by a parse error after rows of its file had been read.
C36_Witness ==
    \E j \in DOMAIN jobs :
        /\ jobs[j].status = "failed"
        /\ Len(results[j]) > 0
        /\ jobs[j].errors = <<ParseErrorMessage>>

\* A pending job whose parser has already delivered rows.
PendingWithRowsRead ==
    \E j \in DOMAIN jobs : jobs[j].status = "pending" /\ Len(results[j]) > 1


\* The upserts of job j the Record Store has committed, as its log has them.
UpsertsOf(j) ==
    LET IsOf(e) == e.by = j
    IN  SelectSeq(storeLog, IsOf)

\* The persisted state of job j counts exactly the upserts the job has
\* committed, each of which can be read from the reports table.
CountsCommitted(j) ==
    /\ jobs[j].successful_rows = Len(UpsertsOf(j))
    /\ Len(UpsertsOf(j)) = Len(Committed(j))
    /\ \A i \in DOMAIN UpsertsOf(j) :
          \E k \in DOMAIN reports : Key(reports[k]) = Key(UpsertsOf(j)[i].data)

\* A step that adds to the failed_rows of job j leaves the Record Store as
\* it was; a step that adds to successful_rows commits one upsert of j.
StepOf(j) ==
    /\ jobs'[j].failed_rows > jobs[j].failed_rows
          => reports' = reports /\ storeLog' = storeLog
    /\ jobs'[j].successful_rows > jobs[j].successful_rows
          => /\ jobs'[j].successful_rows = jobs[j].successful_rows + 1
             /\ storeLog' = Append(storeLog, [by |-> j, data |-> storeLog'[Len(storeLog')].data])

(***************************************************************************)
(* C37.  In every persisted job state successful_rows is the number of     *)
(* upserts the job has committed to the Record Store, the progress write   *)
(* that counts a row coming with the row's committed upsert: whoever reads *)
(* successful_rows = k can read the data of those k rows, and the rows     *)
(* counted in failed_rows have changed nothing in the Record Store.        *)
(***************************************************************************)
C37_Accounting ==
    [][/\ \A j \in DOMAIN jobs' : CountsCommitted(j)'
       /\ \A j \in DOMAIN jobs : StepOf(j)]_vars

\* A job over that stored one row and failed one, while the Record Store
\* holds two upserts that are not this job's.
C37_Witness ==
    \E j \in DOMAIN jobs :
        /\ Over(j)
        /\ jobs[j].successful_rows = 1
        /\ jobs[j].failed_rows = 1
        /\ Len(storeLog) = 3


RECURSIVE Concat(_)
\* The pages' lists of records one after the other.
Concat(pages) ==
    IF pages = <<>> THEN <<>> ELSE Head(pages).reports \o Concat(Tail(pages))

\* The records all pages of the walk returned, in the order of their return.
Fetched == Concat(ret["pages"])

\* The walk was made and its first request was served.
Walked == Called({"pages"}) /\ ret["pages"][1].status = 200

\* The rows of the reports table the filters the walk's answers name keep.
MatchingSet ==
    LET NoNull(x) == IF x = <<"null">> THEN Undefined ELSE x
        f         == ret["pages"][1].filters
        filters   == [monthFrom |-> NoNull(f.monthFrom), monthTo |-> NoNull(f.monthTo),
                      ngoId |-> NoNull(f.ngoId)]
    IN  {i \in DOMAIN reports : Matches(reports[i], filters)}

(***************************************************************************)
(* C38.  With the reports table unchanged between the requests, the pages  *)
(* fetched with the same filters and the same limit L (a whole number in   *)
(* 1..100) at offsets 0, L, 2L, ... until hasMore is false hold every      *)
(* matching record exactly once, none repeated and none skipped, in the    *)
(* order month descending, then ngo_id ascending.                          *)
(***************************************************************************)
C38_PagesCoverOnce ==
    Walked =>
        /\ \A k \in DOMAIN ret["pages"] : ret["pages"][k].status = 200
        /\ ~ret["pages"][Len(ret["pages"])].pagination.hasMore
        /\ \A k \in DOMAIN ret["pages"] :
              /\ ret["pages"][k].pagination.offset = (k - 1) * DigitsValue(arg.query.limit)
              /\ k < Len(ret["pages"]) => ret["pages"][k].pagination.hasMore
        /\ \A i \in MatchingSet :
              Cardinality({p \in DOMAIN Fetched : Fetched[p] = reports[i]}) = 1
        /\ \A p \in DOMAIN Fetched : \E i \in MatchingSet : Fetched[p] = reports[i]
        /\ \A p, q \in DOMAIN Fetched :
              p < q => \/ TextLess(Fetched[q].month, Fetched[p].month)
                       \/ /\ Fetched[p].month = Fetched[q].month
                          /\ TextLess(Fetched[p].ngo_id, Fetched[q].ngo_id)

\* Three matching records of two months fetched one by one in three pages.
C38_Witness ==
    /\ Walked
    /\ Len(ret["pages"]) = 3
    /\ Cardinality(MatchingSet) = 3
    /\ arg.query.limit = <<"1">>
    /\ Fetched[1].month # Fetched[3].month

\* A walk with a filter on the ngo_id that takes two pages.
FilteredWalk ==
    /\ Walked
    /\ arg.query.ngo_id # Undefined
    /\ Len(ret["pages"]) = 2
    /\ Cardinality(MatchingSet) < Len(reports)


(***************************************************************************)
(* Dashboard.jsx: the dashboard in the browser.  The state of the          *)
(* component is what its setters were last given.  A handler is a closure  *)
(* of one render: handleScroll reads loading, loadingMore, reports.length  *)
(* and pagination of the render whose effect attached it to the table,     *)
(* until React renders again and the effect attaches the handler of the    *)
(* new render.  When React does so after a setter was called is up to its  *)
(* scheduler; scroll events and responses come when they come, responses   *)
(* in any order.  The filters are those of the first render, and the       *)
(* reports table does not change.                                          *)
(***************************************************************************)
\* const RECORDS_PER_PAGE (20 in the source), scaled to the tables of the
\* model so that a table takes several pages.
RECORDS_PER_PAGE == 2

\* The most requests the dashboard sends in a run of the model.
MaxRequests == 4

\* x || y on texts
OrElse(x, y) == IF Falsy(x) THEN y ELSE x

\* getDashboard(params): the parameters as the query of GET /dashboard.
getDashboard(params) ==
    [month |-> Undefined, month_from |-> params.monthFrom, month_to |-> params.monthTo,
     ngo_id |-> params.ngoId, offset |-> NumberText(params.offset),
     limit |-> NumberText(params.limit)]

\* The object fetchDashboard gives getDashboard.
DashboardParams(state, offset) ==
    [monthFrom |-> OrElse(OrElse(state.monthFrom, state.monthTo), Undefined),
     monthTo   |-> OrElse(OrElse(state.monthTo, state.monthFrom), Undefined),
     ngoId     |-> OrElse(state.ngoId, Undefined),
     offset    |-> offset,
     limit     |-> RECORDS_PER_PAGE]

\* The useState calls of the component, with these texts in the filters.
DashboardState(monthFrom, monthTo, ngoId) ==
    [monthFrom |-> monthFrom, monthTo |-> monthTo, ngoId |-> ngoId,
     summary |-> Null, reports |-> <<>>,
     pagination |-> [totalRecords |-> 0, hasMore |-> FALSE],
     loading |-> TRUE, loadingMore |-> FALSE, error |-> Null]

\* fetchDashboard(offset, append) up to its await: the setters called, and
\* the request sent.
fetchDashboard(d, offset, append) ==
    [d EXCEPT !.state.loading = IF offset = 0 THEN TRUE ELSE @,
              !.state.loadingMore = IF offset = 0 THEN @ ELSE TRUE,
              !.state.error = Null,
              !.requests = Append(@, [offset |-> offset, append |-> append]),
              !.sent = Append(@, offset)]

\* The component after its first render and its effects: handleScroll of
\* that render attached, and fetchDashboard(0, false) called.
DashboardMounted(monthFrom, monthTo, ngoId) ==
    fetchDashboard([state    |-> DashboardState(monthFrom, monthTo, ngoId),
                    rendered |-> DashboardState(monthFrom, monthTo, ngoId),
                    requests |-> <<>>,
                    sent     |-> <<>>], 0, FALSE)

\* A request that fails with no response (err.response is undefined).
FetchFailed == [status |-> 0, error |-> [message |-> "Failed to fetch dashboard data"]]

\* fetchDashboard from its await on: the try block, or the catch block, and
\* the finally block.
fetchDashboardAnswered(d, request, response) ==
    IF response.status = 200
    THEN [d EXCEPT !.state.summary = response.summary,
                   !.state.pagination = response.pagination,
                   !.state.reports = IF request.append THEN @ \o response.reports
                                     ELSE response.reports,
                   !.state.loading = FALSE,
                   !.state.loadingMore = FALSE]
    ELSE [d EXCEPT !.state.error = response.error,
                   !.state.loading = FALSE,
                   !.state.loadingMore = FALSE]

\* s without its element at position i.
Without(s, i) == SubSeq(s, 1, i - 1) \o SubSeq(s, i + 1, Len(s))

\* Filters of the dashboard: none, a range of months, a part of an ngo_id.
ScrollFilters ==
    {<<<<>>, <<>>, <<>>>>, <<Month01, <<>>, <<>>>>, <<<<>>, <<>>, <<"0", "0", "1">>>>}

InitScroll ==
    /\ jobs = <<>>
    /\ reports \in DashboardTables
    /\ jobWrites = <<>>
    /\ storeCalls = <<>>
    /\ storeLog = <<>>
    /\ responses = <<>>
    /\ uuids = JobIds
    /\ csv = <<>>
    /\ upload = <<>>
    /\ parser = <<>>
    /\ results = <<>>
    /\ errors = <<>>
    /\ rowIndex = <<>>
    /\ headersValidated = <<>>
    /\ processingAborted = <<>>
    /\ loop = <<>>
    /\ promise = <<>>
    /\ arg = <<>>
    /\ ret = <<>>
    /\ dashboard \in {DashboardMounted(f[1], f[2], f[3]) : f \in ScrollFilters}
    /\ bulkUpload = <<>>

\* A scroll event near the bottom of the table: handleScroll of the render
\* it was attached in.
Scroll ==
    /\ Len(dashboard.sent) < MaxRequests
    /\ LET seen == dashboard.rendered
       IN  /\ seen.pagination.hasMore
           /\ ~seen.loadingMore
           /\ ~seen.loading
           /\ Len(seen.reports) < seen.pagination.totalRecords
           /\ dashboard' = fetchDashboard(dashboard, Len(seen.reports), TRUE)
    /\ UNCHANGED <<server, bulkUpload, arg, ret>>

\* The answer to a request arrives: what GET /dashboard answers, or nothing.
Respond ==
    /\ \E i \in DOMAIN dashboard.requests :
         LET request == dashboard.requests[i]
             query   == getDashboard(DashboardParams(dashboard.rendered, request.offset))
         IN  \E response \in {DashboardRoute(reports, query), FetchFailed} :
                dashboard' = fetchDashboardAnswered(
                                [dashboard EXCEPT !.requests = Without(@, i)],
                                request, response)
    /\ UNCHANGED <<server, bulkUpload, arg, ret>>

\* React renders the component with its state, and the effect attaches the
\* handleScroll of this render.
Render ==
    /\ dashboard.rendered # dashboard.state
    /\ dashboard' = [dashboard EXCEPT !.rendered = dashboard.state]
    /\ UNCHANGED <<server, bulkUpload, arg, ret>>

NextScroll == Scroll \/ Respond \/ Render

SpecScroll == InitScroll /\ [][NextScroll]_vars


\* The load-more requests in flight.
LoadMoreInFlight == {i \in DOMAIN dashboard.requests : dashboard.requests[i].append}

\* No element of the sequence occurs in it twice.
NoRepeat(s) == \A i, k \in DOMAIN s : i # k => s[i] # s[k]

(***************************************************************************)
(* C40.  Whatever the scroll events and the arrivals of the responses, at  *)
(* most one load-more request of the dashboard is in flight at a time, no  *)
(* offset is requested twice for the same filters, and the displayed list  *)
(* never holds a record twice nor more records than totalRecords.          *)
(***************************************************************************)
C40_AsClaimed ==
    /\ Cardinality(LoadMoreInFlight) <= 1
    /\ NoRepeat(dashboard.sent)
    /\ NoRepeat(dashboard.state.reports)
    /\ Len(dashboard.state.reports) <= dashboard.state.pagination.totalRecords

\* Two load-more requests in flight at the same offset.
TwoLoadsInFlight ==
    \E i, k \in LoadMoreInFlight :
        i # k /\ dashboard.requests[i].offset = dashboard.requests[k].offset

\* The displayed list with a record twice and more records than there are.
ShownTwice ==
    /\ ~NoRepeat(dashboard.state.reports)
    /\ Len(dashboard.state.reports) > dashboard.state.pagination.totalRecords
    /\ dashboard.requests = <<>>
    /\ dashboard.rendered = dashboard.state

\* The list complete and in order after two pages.
LoadedInTwoPages ==
    /\ Len(dashboard.sent) = 2
    /\ dashboard.requests = <<>>
    /\ Len(dashboard.state.reports) = 3
    /\ dashboard.state.reports = OrderBy(reports)
    /\ ~dashboard.state.pagination.hasMore


(***************************************************************************)
(* BulkUpload.jsx: the upload client and its polling.  As for the          *)
(* dashboard, the state is what the setters were last given, and the       *)
(* polling effect is that of the last render React has committed: when its *)
(* dependencies [jobId, jobStatus?.status] differ from those it ran with,  *)
(* the next commit runs its cleanup (isMounted = false for the callbacks   *)
(* of the old interval, clearInterval) and runs it again.  An interval     *)
(* that is set ticks when it ticks, each tick sending a request; the       *)
(* server answers a request when it reaches it, and the answers arrive in  *)
(* any order.  (The file input, the uploading flag and the snackbar only   *)
(* feed the display and are left out.)                                     *)
(***************************************************************************)
\* The most job-status requests in flight at a time.
MaxInFlight == 2

\* const isTerminalStatus = (status) => status === 'completed' || status === 'failed'
isTerminalStatus(status) == status = "completed" \/ status = "failed"

\* jobStatus?.status
StatusOf(jobStatus) == IF jobStatus = Null THEN "undefined" ELSE jobStatus.status

\* The dependencies of the polling effect in this state.  (A jobId of null
\* is written "": the component tests it for truth only.)
PollingDeps(state) == <<state.jobId, StatusOf(state.jobStatus)>>

\* if (jobId && !isTerminalStatus(jobStatus?.status))
ShouldPoll(deps) == deps[1] # "" /\ ~isTerminalStatus(deps[2])

\* GET /job-status/:jobId
JobStatusRoute(js, jobId) ==
    IF jobId \notin DOMAIN js
    THEN [status |-> 404, error |-> "Job not found"]
    ELSE [status |-> 200,
          data   |-> [id             |-> jobId,
                      status         |-> js[jobId].status,
                      totalRows      |-> js[jobId].total_rows,
                      processedRows  |-> js[jobId].processed_rows,
                      successfulRows |-> js[jobId].successful_rows,
                      failedRows     |-> js[jobId].failed_rows,
                      errors         |-> js[jobId].errors]]

\* The files uploaded: one with a valid and an invalid row, one with a
\* valid row whose stream fails, and one with no row.
PolledFiles ==
    {[headers |-> ColumnNames(HeaderExact),
      records |-> <<RecordOf(HeaderExact, LineA), RecordOf(HeaderExact, LineX)>>,
      fault   |-> FALSE],
     [headers |-> ColumnNames(HeaderExact),
      records |-> <<RecordOf(HeaderExact, LineA)>>,
      fault   |-> TRUE],
     [headers |-> ColumnNames(HeaderExact), records |-> <<>>, fault |-> FALSE]}

\* The component after its first render: no job, no interval.
BulkUploadMounted ==
    [state    |-> [jobId |-> "", jobStatus |-> Null],
     effect   |-> [deps |-> <<"", "undefined">>, polling |-> FALSE],
     uploaded |-> 0,
     requests |-> <<>>,
     terminal |-> {}]

InitPolling ==
    /\ jobs = <<>>
    /\ reports = <<>>
    /\ jobWrites = <<>>
    /\ storeCalls = <<>>
    /\ storeLog = <<>>
    /\ responses = <<>>
    /\ uuids = JobIds
    /\ csv = <<>>
    /\ upload = <<>>
    /\ parser = <<>>
    /\ results = <<>>
    /\ errors = <<>>
    /\ rowIndex = <<>>
    /\ headersValidated = <<>>
    /\ processingAborted = <<>>
    /\ loop = <<>>
    /\ promise = <<>>
    /\ arg = <<>>
    /\ ret = <<>>
    /\ dashboard = <<>>
    /\ bulkUpload = BulkUploadMounted

\* POST /reports/upload with the file of handleUpload's uploadCSV(file).
UploadPolled == \E jobId \in uuids, file \in PolledFiles : UploadRoute(jobId, file)

\* handleUpload after await uploadCSV(file): the next 202 has arrived.
Uploaded ==
    /\ bulkUpload.uploaded < Len(responses)
    /\ LET response == responses[bulkUpload.uploaded + 1]
       IN  /\ response.route = "upload"
           /\ response.status = 202
           /\ bulkUpload' = [bulkUpload EXCEPT
                  !.uploaded = @ + 1,
                  !.state = [jobId     |-> response.jobId,
                             jobStatus |-> [status |-> "pending", processedRows |-> 0,
                                            totalRows |-> 0]]]
    /\ UNCHANGED <<server, dashboard, arg, ret>>

\* handleReset (and handleFileChange): setJobId(null); setJobStatus(null).
Reset ==
    /\ bulkUpload.state.jobId # ""
    /\ bulkUpload' = [bulkUpload EXCEPT !.state = [jobId |-> "", jobStatus |-> Null]]
    /\ UNCHANGED <<server, dashboard, arg, ret>>

\* React commits a render whose jobId or jobStatus?.status is not that of
\* the effect: the cleanup of the effect, then the effect again.
Commit ==
    /\ bulkUpload.effect.deps # PollingDeps(bulkUpload.state)
    /\ bulkUpload' = [bulkUpload EXCEPT
           !.requests = [i \in DOMAIN @ |-> [@[i] EXCEPT !.isMounted = FALSE]],
           !.effect = [deps    |-> PollingDeps(bulkUpload.state),
                       polling |-> ShouldPoll(PollingDeps(bulkUpload.state))]]
    /\ UNCHANGED <<server, dashboard, arg, ret>>

\* The interval ticks: getJobStatus(jobId) is called with the jobId of the
\* effect's render.
Tick ==
    /\ bulkUpload.effect.polling
    /\ Len(bulkUpload.requests) < MaxInFlight
    /\ bulkUpload' = [bulkUpload EXCEPT
           !.requests = Append(@, [jobId     |-> bulkUpload.effect.deps[1],
                                   deps      |-> bulkUpload.effect.deps,
                                   isMounted |-> TRUE,
                                   response  |-> Null])]
    /\ UNCHANGED <<server, dashboard, arg, ret>>

\* The server answers a request (or the request fails on its way).
Answer ==
    /\ \E i \in DOMAIN bulkUpload.requests :
          /\ bulkUpload.requests[i].response = Null
          /\ \E response \in {JobStatusRoute(jobs, bulkUpload.requests[i].jobId),
                              [status |-> 0, error |-> "Network Error"]} :
                bulkUpload' = [bulkUpload EXCEPT !.requests[i].response = response]
    /\ UNCHANGED <<server, dashboard, arg, ret>>

\* The interval's callback after await getJobStatus(jobId).
Polled ==
    /\ \E i \in DOMAIN bulkUpload.requests :
          LET request == bulkUpload.requests[i]
              rest    == [bulkUpload EXCEPT !.requests = Without(@, i)]
          IN  /\ request.response # Null
              /\ bulkUpload' =
                    IF request.response.status = 200 /\ request.isMounted
                    THEN [rest EXCEPT
                            !.state.jobStatus = request.response.data,
                            !.effect.polling =
                                IF isTerminalStatus(request.response.data.status)
                                THEN FALSE ELSE @,
                            !.terminal =
                                IF isTerminalStatus(request.response.data.status)
                                THEN @ \cup {request.jobId} ELSE @]
                    ELSE rest
    /\ UNCHANGED <<server, dashboard, arg, ret>>

NextPolling ==
    \/ UploadPolled \/ Data \/ Error \/ End \/ Timer
    \/ Uploaded \/ Reset \/ Commit \/ Tick \/ Answer \/ Polled

SpecPolling == InitPolling /\ [][NextPolling]_vars


\* This step applies the answer to a request to the state.
Applies(request) ==
    /\ \E i \in DOMAIN bulkUpload.requests :
          /\ bulkUpload.requests[i] = request
          /\ bulkUpload'.requests = Without(bulkUpload.requests, i)
    /\ request.response # Null
    /\ request.response.status = 200
    /\ bulkUpload'.state.jobStatus = request.response.data
    /\ bulkUpload'.state # bulkUpload.state

\* This step issues a job-status request for job j.
Issues(j) ==
    /\ Len(bulkUpload'.requests) = Len(bulkUpload.requests) + 1
    /\ bulkUpload'.requests[Len(bulkUpload'.requests)].jobId = j

\* The effect is that of the state, a job is being watched, and the status
\* observed is pending or processing.
Watching ==
    /\ bulkUpload.effect.deps = PollingDeps(bulkUpload.state)
    /\ bulkUpload.state.jobId # ""
    /\ StatusOf(bulkUpload.state.jobStatus) \in {"pending", "processing"}

(***************************************************************************)
(* C39.  The polling of the upload client stops on both terminal statuses: *)
(* once a poll response with status completed or failed has been applied,  *)
(* no further job-status request is issued for that job; while the         *)
(* observed status is pending or processing the interval that issues a     *)
(* request at every tick is set; and a response that arrives after the job *)
(* id or the observed status has changed is not applied.                   *)
(***************************************************************************)
C39_AsClaimed ==
    [][/\ \A j \in bulkUpload.terminal : ~Issues(j)
       /\ Watching' => bulkUpload'.effect.polling
       /\ \A i \in DOMAIN bulkUpload.requests :
             Applies(bulkUpload.requests[i])
                => bulkUpload.requests[i].deps = PollingDeps(bulkUpload.state)]_vars

\* The client stuck: the job is completed and the completion was applied,
\* yet the status shown is processing and no interval is set.
StuckAtProcessing ==
    /\ Watching
    /\ bulkUpload.terminal # {}
    /\ StatusOf(bulkUpload.state.jobStatus) = "processing"
    /\ ~bulkUpload.effect.polling
    /\ bulkUpload.requests = <<>>
    /\ jobs[bulkUpload.state.jobId].status = "completed"

\* A request issued for a job whose terminal status had been applied.
PollsAfterTerminal ==
    /\ bulkUpload.terminal # {}
    /\ \E i \in DOMAIN bulkUpload.requests :
          /\ bulkUpload.requests[i].jobId \in bulkUpload.terminal
          /\ bulkUpload.requests[i].deps[2] = "processing"
          /\ bulkUpload.requests[i].isMounted

\* The polling at rest after a failed job: failed shown, no interval, no
\* request in flight.
StoppedOnFailed ==
    /\ StatusOf(bulkUpload.state.jobStatus) = "failed"
    /\ bulkUpload.effect.deps = PollingDeps(bulkUpload.state)
    /\ ~bulkUpload.effect.polling
    /\ bulkUpload.requests = <<>>

=============================================================================
